---- MODULE Spec2Model ----
(***************************************************************************)
(* Model of the planning core of alex_path_planner: the Executive's        *)
(* planner-state machine and replanning loop (executive.cpp), the          *)
(* DubinsPlan container (DubinsPlan.cpp) and the controller RPC wrapper    *)
(* NodeBase::publishPlan.                                                  *)
(*                                                                         *)
(* Threads: one control/transport thread calling the Executive's public    *)
(* methods, and one planning worker per std::async launch of planLoop.     *)
(* Sections guarded by a lock_guard that cannot block inside are single    *)
(* atomic actions; m_PlannerStateMutex is explicit because startPlanner    *)
(* can block while holding it (the std::future it replaces joins the old   *)
(* worker on release).                                                     *)
(***************************************************************************)
EXTENDS Integers, Sequences, FiniteSets, TLC

(***************************************************************************)
(* Bounds of the model.                                                    *)
(***************************************************************************)
\* number of planLoop workers that startPlanner may launch in one behaviour
MaxWorkers == 2
\* plan times range over 0..MaxT (one unit = one plan-sample step); a plan
\* has at most MaxT segments, each of positive length
MaxT == 2
\* consecutive empty-plan cycles a worker is taken through
MaxEmptyRun == 7
\* ribbons the master ribbon manager may hold uncovered
MaxRibbons == 1
\* DubinsPlan objects taken on their own: latest time, most segments
MaxPlanT == 4
MaxSegs == 3
\* maps that exist in one behaviour (the one startPlanner makes included)
MaxMaps == 3
\* updates each dynamic-obstacle manager receives in one behaviour
MaxObstacleUpdates == 1
\* a Gaussian obstacle taken on its own: its coordinates stay within
\* -MaxCoord..MaxCoord, its speed within 0..MaxSpeed, times within 0..MaxObstacleT
MaxCoord == 3
MaxSpeed == 2
MaxObstacleT == 2
\* the clock of the vehicle runs over 0..MaxClock
MaxClock == 3
\* a cycle starts from an accumulated radius shrink of at most MaxShrink, and
\* from a turning radius at most MaxShrink above the configured one
MaxShrink == 5
\* the controller test node is sent at most MaxGoals goals
MaxGoals == 3

Workers == 1..MaxWorkers
Times == 0..MaxT
\* cross-track positions: 0 is the planned track, 1 is off the track
Xs == {0, 1}

(***************************************************************************)
(* State: {x, time}.  State() is the sentinel with time = -1               *)
(* (executive.cpp:131 tests startState.time() == -1 after State()).        *)
(***************************************************************************)
State(x, t) == [time |-> t, x |-> x]
DefaultState == State(0, -1)
States == {State(x, t) : x \in Xs, t \in Times} \cup {DefaultState}

\* State::isCoLocated: same position within tolerance
isCoLocated(a, b) == a.x = b.x

(***************************************************************************)
(* DubinsWrapper (one segment) and DubinsPlan (DubinsPlan.cpp).            *)
(***************************************************************************)
Segments == {[startTime |-> s, endTime |-> e, x |-> 0] : s \in Times, e \in Times}

\* DubinsWrapper::containsTime
Wrapper_containsTime(seg, t) == seg.startTime <= t /\ t <= seg.endTime

\* DubinsWrapper::sample: fills the state's position, keeps its time
Wrapper_sample(seg, s) == State(seg.x, s.time)

\* DubinsPlan::empty
empty(p) == Len(p) = 0

\* DubinsPlan::containsTime
containsTime(p, t) == \E i \in 1..Len(p) : Wrapper_containsTime(p[i], t)

\* a sample that tests the time against the span of the whole plan
sample_spanOnly(p, s) ==
    IF Len(p) > 0 /\ p[1].startTime <= s.time /\ s.time <= p[Len(p)].endTime
    THEN LET inside == {k \in 1..Len(p) : Wrapper_containsTime(p[k], s.time)}
             i == IF inside = {} THEN 1 ELSE CHOOSE k \in inside : \A j \in inside : k <= j
         IN  [ok |-> TRUE, state |-> Wrapper_sample(p[i], s)]
    ELSE [ok |-> FALSE, state |-> s]

\* a sample that reads the last segment containing the time
sample_last(p, s) ==
    IF containsTime(p, s.time)
    THEN LET i == CHOOSE k \in 1..Len(p) :
                     /\ Wrapper_containsTime(p[k], s.time)
                     /\ \A j \in (k + 1)..Len(p) : ~Wrapper_containsTime(p[j], s.time)
         IN  [ok |-> TRUE, state |-> Wrapper_sample(p[i], s)]
    ELSE [ok |-> FALSE, state |-> s]

\* DubinsPlan::sample: the first segment containing s.time, or a runtime_error
sample(p, s) ==
    IF containsTime(p, s.time)
    THEN LET i == CHOOSE k \in 1..Len(p) :
                     /\ Wrapper_containsTime(p[k], s.time)
                     /\ \A j \in 1..(k - 1) : ~Wrapper_containsTime(p[j], s.time)
         IN  [ok |-> TRUE, state |-> Wrapper_sample(p[i], s)]
    ELSE [ok |-> FALSE, state |-> s]

\* DubinsPlan::getStartTime / getEndTime (callers guard against empty plans)
getStartTime(p) == p[1].startTime
getEndTime_front(p) == p[1].endTime
getEndTime(p) == p[Len(p)].endTime

\* the loop of DubinsPlan::changeIntoSuffix: erase the front segment while it
\* ends before startTime.  front() of an emptied vector is undefined behaviour,
\* reported with ub = TRUE.
RECURSIVE dropPast(_, _)
dropPast(p, startTime) ==
    IF Len(p) = 0 THEN [plan |-> p, ub |-> TRUE]
    ELSE IF p[1].endTime < startTime THEN dropPast(Tail(p), startTime)
    ELSE [plan |-> p, ub |-> FALSE]

\* a loop that erases the segments that start before startTime
RECURSIVE dropPast_byStart(_, _)
dropPast_byStart(p, startTime) ==
    IF Len(p) = 0 THEN [plan |-> p, ub |-> TRUE]
    ELSE IF p[1].startTime < startTime THEN dropPast_byStart(Tail(p), startTime)
    ELSE [plan |-> p, ub |-> FALSE]

\* a loop that erases the segments that end at startTime as well
RECURSIVE dropPast_inclusive(_, _)
dropPast_inclusive(p, startTime) ==
    IF Len(p) = 0 THEN [plan |-> p, ub |-> TRUE]
    ELSE IF p[1].endTime <= startTime THEN dropPast_inclusive(Tail(p), startTime)
    ELSE [plan |-> p, ub |-> FALSE]

changeIntoSuffix_byStart(p, startTime) ==
    IF Len(p) = 0 THEN [ok |-> FALSE, plan |-> p, ub |-> FALSE]
    ELSE [ok |-> TRUE] @@ dropPast_byStart(p, startTime)

changeIntoSuffix_inclusive(p, startTime) ==
    IF Len(p) = 0 THEN [ok |-> FALSE, plan |-> p, ub |-> FALSE]
    ELSE [ok |-> TRUE] @@ dropPast_inclusive(p, startTime)

\* the loop commented out at DubinsPlan.cpp:72-76 put back: the segment
\* containing startTime is made to start there
changeIntoSuffix_retimes(p, startTime) ==
    IF Len(p) = 0 THEN [ok |-> FALSE, plan |-> p, ub |-> FALSE]
    ELSE LET q == [i \in 1..Len(p) |->
                      IF Wrapper_containsTime(p[i], startTime)
                      THEN [p[i] EXCEPT !.startTime = startTime] ELSE p[i]]
         IN  [ok |-> TRUE] @@ dropPast(q, startTime)

\* a changeIntoSuffix that erases nothing
changeIntoSuffix_keepsAll(p, startTime) ==
    [ok |-> Len(p) # 0, plan |-> p, ub |-> FALSE]

\* DubinsPlan::changeIntoSuffix: throws on an empty plan, else drops the past
changeIntoSuffix(p, startTime) ==
    IF Len(p) = 0 THEN [ok |-> FALSE, plan |-> p, ub |-> FALSE]
    ELSE [ok |-> TRUE] @@ dropPast(p, startTime)

\* DubinsPlan::planTimeDensity(), in units of plan time
planTimeDensity == 1

\* a loop that runs while time <= getEndTime()
sampleTimes_inclusive(p) ==
    {t \in getStartTime(p)..getEndTime(p) : (t - getStartTime(p)) % planTimeDensity = 0}

\* the times the loop of getHalfSecondSamples visits: from getStartTime() in
\* steps of planTimeDensity() while time < getEndTime()
sampleTimes(p) ==
    {t \in getStartTime(p)..(getEndTime(p) - 1) : (t - getStartTime(p)) % planTimeDensity = 0}

\* DubinsPlan::getHalfSecondSamples: nothing for a plan without segments,
\* else sample() at each time of the loop; the runtime_error of a sample()
\* ends the call
getHalfSecondSamples(p) ==
    IF empty(p) THEN [ok |-> TRUE, samples |-> << >>]
    ELSE LET times == sampleTimes(p)
             n == Cardinality(times)
         IN  IF \E t \in times : ~sample(p, State(0, t)).ok
             THEN [ok |-> FALSE, samples |-> << >>]
             ELSE [ok |-> TRUE,
                   samples |-> [k \in 1..n |->
                       sample(p, State(0, getStartTime(p) + (k - 1) * planTimeDensity)).state]]

\* DubinsPlan::getHalfSecondSamples: TRUE when some sample() in its loop throws
samplesThrow(p) ==
    /\ ~empty(p)
    /\ \E t \in getStartTime(p)..(getEndTime(p) - 1) : ~containsTime(p, t)

(***************************************************************************)
(* The Plan message (NodeBase::convertToPlanMsg).  A segment's pose, type   *)
(* and rho are its track x; its three lengths are one length, travelled at  *)
(* getSpeed(), which gives the segment's end time.                          *)
(***************************************************************************)
\* DubinsWrapper::getSpeed, in length units per unit of plan time
getSpeed(seg) == 1

\* DubinsWrapper::unwrap: the DubinsPath {qi, param, type} of the segment
unwrap(seg) == [qi |-> seg.x, param |-> (seg.endTime - seg.startTime) * getSpeed(seg)]

\* a message without paths
NoMsg == [paths |-> << >>, endtime |-> 0]

\* a conversion that stamps every path with the start time of the plan
DubinsPathMsg_planStart(p, seg) ==
    [initial_x |-> unwrap(seg).qi, length0 |-> unwrap(seg).param,
     speed |-> getSpeed(seg), start_time |-> getStartTime(p)]

\* NodeBase.h:329-341: the DubinsPath message of one segment of plan p
DubinsPathMsg(p, seg) ==
    [initial_x |-> unwrap(seg).qi, length0 |-> unwrap(seg).param,
     speed |-> getSpeed(seg), start_time |-> seg.startTime]

\* NodeBase::convertToPlanMsg: one path per segment, then plan.getEndTime(),
\* which throws on a plan without segments
convertToPlanMsg(p) ==
    IF empty(p) THEN [ok |-> FALSE, msg |-> NoMsg]
    ELSE [ok |-> TRUE,
          msg |-> [paths |-> [i \in 1..Len(p) |-> DubinsPathMsg(p, p[i])],
                   endtime |-> getEndTime(p)]]

\* the plan the receiver builds from a Plan message: one DubinsWrapper per
\* path, from its DubinsPath, speed and start time
convertToDubinsPlan(msg) ==
    [i \in 1..Len(msg.paths) |->
        [startTime |-> msg.paths[i].start_time,
         endTime |-> msg.paths[i].start_time + msg.paths[i].length0 \div msg.paths[i].speed,
         x |-> msg.paths[i].initial_x]]

\* plans the planners can return: segments in time order, each of positive length
OrderedPlan(p) ==
    /\ \A i \in 1..Len(p) : p[i].startTime < p[i].endTime
    /\ \A i \in 1..(Len(p) - 1) : p[i].endTime <= p[i + 1].startTime
Plans == {p \in UNION {[1..n -> Segments] : n \in 0..MaxT} : OrderedPlan(p)}
NoPlan == << >>

(***************************************************************************)
(* Executive state.                                                        *)
(***************************************************************************)
PlannerState == {"Inactive", "Running", "Cancelled"}
WhichPlanner == {"PotentialField", "AStar", "BitStar"}

\* timeHorizon and timeMinimum are held in quarter seconds, so that every
\* halving the loop stores is exact
Seconds(n) == 4 * n
ConfigHorizons == {Seconds(60)}
ConfigMinimums == {Seconds(15)}

VARIABLES
    m_PlannerState,        \* Executive::m_PlannerState
    m_PlannerStateMutex,   \* "free", or "startPlanner" while startPlanner holds it
    m_PlanningFuture,      \* worker whose shared state the future holds, 0 = none
    joining,               \* worker startPlanner is blocked on, 0 = not blocked
    pc,                    \* position of each planLoop worker
    startState,            \* planLoop local, per worker
    plan,                  \* planLoop local stats.Plan, per worker
    lastPlanAchievable,    \* planLoop local, per worker
    failureCount,          \* planLoop local, per worker
    m_WhichPlanner,        \* Executive::m_WhichPlanner
    timeHorizon,           \* m_PlannerConfig.timeHorizon()
    timeMinimum,           \* m_PlannerConfig.timeMinimum()
    m_RibbonManager,       \* number of ribbons not yet covered
    cycle,                 \* per worker: what the current cycle has done so far
    backoff,               \* observer: the run of empty-plan cycles in progress
    dp,                    \* a DubinsPlan object taken on its own (m_DubinsPaths)
    call,                  \* the last member function called (on dp, or on the
                           \* Executive where its configuration is taken on its own)
    mutex,                 \* holder of each mutex that guards shared data
    at,                    \* where each thread that touches shared data is
    lock1,                 \* planLoop local: did try_lock on m_MapMutex succeed
    m_NewMap,              \* Executive::m_NewMap, 0 = nullptr
    map,                   \* m_PlannerConfig.map()
    mapsPosted,            \* maps created so far (map 1 is the one startPlanner makes)
    installed,             \* the maps planLoop has put in the config, in order
    m_UseGaussianDynamicObstacles,
    m_GaussianDynamicObstaclesManager,  \* updates its obstacles have had
    m_BinaryDynamicObstaclesManager,    \* updates its obstacles have had
    handed,                \* what the running planner.plan call was given
    obstacle,              \* a GaussianDynamicObstaclesManager::Obstacle taken on its own
    projected,             \* the last project() call on it: the obstacle before, the time
    m_LastState,           \* Executive::m_LastState: {x, speed, time}
    clock,                 \* m_TrajectoryPublisher->getTime()
    turningRadius,         \* m_PlannerConfig.turningRadius()
    coverageTurningRadius, \* m_PlannerConfig.coverageTurningRadius()
    m_RadiusShrink,        \* Executive::m_RadiusShrink
    heuristic,             \* the heuristic kind of m_RibbonManager
    m_Preempted,           \* NodeBase::m_Preempted
    m_ActionDone,          \* NodeBase::m_ActionDone
    goal,                  \* the goal of m_action_server: its status and its reports
    display,               \* position of the display thread of goalCallback
    cancelCalls            \* observer: the workers alive at a cancelPlanner call

vars == <<m_PlannerState, m_PlannerStateMutex, m_PlanningFuture, joining, pc,
          startState, plan, lastPlanAchievable, failureCount, m_WhichPlanner,
          timeHorizon, timeMinimum, m_RibbonManager, cycle, backoff, dp, call,
          mutex, at, lock1, m_NewMap, map, mapsPosted, installed,
          m_UseGaussianDynamicObstacles, m_GaussianDynamicObstaclesManager,
          m_BinaryDynamicObstaclesManager, handed, obstacle, projected,
          m_LastState, clock, turningRadius, coverageTurningRadius, m_RadiusShrink,
          heuristic, m_Preempted, m_ActionDone, goal, display, cancelCalls>>

\* the parts of the program that are taken on their own
unitVars == <<m_LastState, clock, turningRadius, coverageTurningRadius, m_RadiusShrink,
              heuristic, m_Preempted, m_ActionDone, goal, display, cancelCalls>>

\* the shared data other than the ribbons, its locks and the threads on it
dataVars == <<mutex, at, lock1, m_NewMap, map, mapsPosted, installed,
              m_UseGaussianDynamicObstacles, m_GaussianDynamicObstaclesManager,
              m_BinaryDynamicObstaclesManager, handed, obstacle, projected, unitVars>>

lifecycleVars == <<m_PlannerState, m_PlannerStateMutex, m_PlanningFuture, joining>>
localVars == <<startState, plan, lastPlanAchievable, failureCount>>
configVars == <<m_WhichPlanner, timeHorizon, timeMinimum>>

\* a worker thread that has returned from planLoop (normally or by exception)
Finished == {"refused", "done", "crashed"}
\* positions inside the while (true) loop
InLoop == {"top", "prepare", "planning", "publish"}

\* record of a worker's run: did this cycle call planner.plan, did that call
\* throw, was the controller's state off the plan at the end of the last cycle
\* that published one, and the publishPlan call of this cycle ("none" when
\* there was no call, "ok", or "failed"), the calls of allDone() it has made,
\* and whether cancelPlanner took effect while it was inside planner.plan
NewCycle == [calledPlan |-> FALSE, planThrew |-> FALSE, deviated |-> FALSE, rpc |-> "none",
             allDone |-> 0, cancelledInPlan |-> FALSE]
NoBackoff == [n |-> 0, from |-> 0]

\* no member function has been called on dp yet
NoCall == [op |-> "none", t |-> -1, before |-> NoPlan, outcome |-> "returned", ub |-> FALSE,
           state |-> DefaultState, num |-> 0, flag |-> FALSE, what |-> "", samples |-> << >>,
           msg |-> [paths |-> << >>, endtime |-> 0]]

\* the mutexes of the Executive that guard data
Mutexes == {"m_RibbonManagerMutex", "m_MapMutex", "m_GaussianDynamicObstaclesManagerMutex"}
\* the planning worker, the transport thread and the thread of refreshMap
Threads == {"worker", "transport", "loader"}

\* nothing given to a planner
NothingHanded == [ribbons |-> 0, obstacles |-> 0, manager |-> "none", covered |-> 0]

(***************************************************************************)
(* GaussianDynamicObstaclesManager::Obstacle.  Angles are in quarter turns, *)
(* where cos and sin are whole numbers.                                     *)
(***************************************************************************)
cos(yaw) == CASE yaw % 4 = 0 -> 1 [] yaw % 4 = 2 -> -1 [] OTHER -> 0
sin(yaw) == CASE yaw % 4 = 1 -> 1 [] yaw % 4 = 3 -> -1 [] OTHER -> 0

\* GaussianDynamicObstaclesManager.h:24-25: the default covariance
DefaultCovariance == <<<<30, 10>>, <<10, 30>>>>

\* Obstacle(x, y, heading, speed, time): Yaw = M_PI_2 - heading
Obstacle(x, y, heading, speed, time) ==
    [X |-> x, Y |-> y, Yaw |-> (1 - heading) % 4, Speed |-> speed, Time |-> time,
     mean |-> <<x, y>>, covariance |-> DefaultCovariance]

\* a project that takes Yaw for the compass heading
project_alongHeading(o, desiredTime) ==
    LET dt == desiredTime - o.Time
        dx == o.Speed * dt * sin(o.Yaw)
        dy == o.Speed * dt * cos(o.Yaw)
    IN  [o EXCEPT !.X = o.X + dx, !.Y = o.Y + dy, !.mean = <<o.X + dx, o.Y + dy>>]

\* Obstacle::project(desiredTime)
project(o, desiredTime) ==
    LET dt == desiredTime - o.Time
        dx == o.Speed * dt * cos(o.Yaw)
        dy == o.Speed * dt * sin(o.Yaw)
    IN  [o EXCEPT !.X = o.X + dx, !.Y = o.Y + dy, !.mean = <<o.X + dx, o.Y + dy>>]

\* Obstacle::pdf(x): the quadratic form (x - mean)' * inverse(covariance) *
\* (x - mean), times the determinant of the covariance; the density falls as
\* it grows
quadform(o, x) ==
    LET dx == x[1] - o.mean[1]
        dy == x[2] - o.mean[2]
        c == o.covariance
    IN  c[2][2] * dx * dx - (c[1][2] + c[2][1]) * dx * dy + c[1][1] * dy * dy

\* no project() call yet
NotProjected == [before |-> Obstacle(0, 0, 0, 0, 0), desiredTime |-> -1]

(***************************************************************************)
(* The vehicle state with its speed, on the axis the vehicle moves along.  *)
(***************************************************************************)
VehicleState(x, speed, t) == [x |-> x, speed |-> speed, time |-> t]

\* State(): the time is the sentinel -1
DefaultVehicleState == VehicleState(0, 0, -1)

\* State::push(dt): a straight-line extrapolation
push(s, dt) == VehicleState(s.x + s.speed * dt, s.speed, s.time + dt)

\* no goal has been accepted by the action server.  A goal has its number, its
\* status in the action server, the span of time of the plan made from it
\* (empty when until < from), whether preemptCallback has run for it, the
\* allDone() calls made for it, and whether one of them came after the preempt
NoGoal == [number |-> 0, status |-> "none", from |-> 0, until |-> -1,
           preempted |-> FALSE, succeeded |-> 0, afterPreempt |-> FALSE]

\* the variables of the parts taken on their own, while they are not looked at
InitVehicle == m_LastState = DefaultVehicleState /\ clock = 0
InitRadius == turningRadius = 0 /\ coverageTurningRadius = 0 /\ m_RadiusShrink = 0
InitTest == m_Preempted = FALSE /\ m_ActionDone = FALSE /\ goal = NoGoal /\ display = "none"
InitUnits ==
    /\ InitVehicle
    /\ InitRadius
    /\ heuristic = 1
    /\ InitTest
    /\ cancelCalls = {}

\* the shared data after construction and one startPlanner: no thread at
\* work, no map posted, the empty map 1 in the config
InitData ==
    /\ mutex = [m \in Mutexes |-> "free"]
    /\ at = [t \in Threads |-> "idle"]
    /\ lock1 = FALSE
    /\ m_NewMap = 0
    /\ map = 1
    /\ mapsPosted = 1
    /\ installed = << >>
    /\ m_GaussianDynamicObstaclesManager = 0
    /\ m_BinaryDynamicObstaclesManager = 0
    /\ handed = NothingHanded
    /\ obstacle = Obstacle(0, 0, 0, 0, 0)
    /\ projected = NotProjected

Init ==
    /\ InitData
    /\ InitUnits
    /\ m_UseGaussianDynamicObstacles = TRUE
    /\ m_PlannerState = "Inactive"
    /\ m_PlannerStateMutex = "free"
    /\ m_PlanningFuture = 0
    /\ joining = 0
    /\ pc = [w \in Workers |-> "unborn"]
    /\ startState = [w \in Workers |-> DefaultState]
    /\ plan = [w \in Workers |-> NoPlan]
    /\ lastPlanAchievable = [w \in Workers |-> FALSE]
    /\ failureCount = [w \in Workers |-> 0]
    /\ m_WhichPlanner \in WhichPlanner
    /\ timeHorizon \in ConfigHorizons
    /\ timeMinimum \in ConfigMinimums
    /\ m_RibbonManager = 0
    /\ cycle = [w \in Workers |-> NewCycle]
    /\ backoff = NoBackoff
    /\ dp = NoPlan
    /\ call = NoCall

(***************************************************************************)
(* Control thread: startPlanner, cancelPlanner, terminate.                 *)
(***************************************************************************)
\* a startPlanner without the check of the state
startSpawns_always(st) == TRUE

\* executive.cpp:527: a new planLoop is launched unless the state is Running
startSpawns(st) == st # "Running"

\* a cancelPlanner that stores Cancelled whatever the state is
cancelEffect_always(st) == "Cancelled"

\* executive.cpp:533-536: cancelPlanner moves Running to Cancelled, nothing else
cancelEffect(st) == IF st = "Running" THEN "Cancelled" ELSE st

\* a future whose release never waits (a detached thread)
releaseBlocks_never(old) == FALSE

\* executive.cpp:528: the assignment to m_PlanningFuture releases the shared
\* state of the previous std::async call, which blocks until that planLoop
\* has returned
releaseBlocks(old) == old # 0 /\ pc[old] \notin Finished

\* the worker the next std::async launch creates
NextWorker == CHOOSE w \in Workers : pc[w] = "unborn" /\ \A v \in Workers : v < w => pc[v] # "unborn"

\* Executive::startPlanner.  m_PlanningFuture = async(...) starts the new
\* worker and then releases the future's previous shared state, which blocks
\* until that planLoop has returned; the unique_lock is held throughout.
startPlanner ==
    /\ joining = 0
    /\ m_PlannerStateMutex = "free"
    /\ \/ /\ ~startSpawns(m_PlannerState)
          /\ UNCHANGED <<m_PlannerState, m_PlannerStateMutex, m_PlanningFuture, joining, pc>>
       \/ /\ startSpawns(m_PlannerState)
          /\ \E w \in Workers : pc[w] = "unborn"
          /\ pc' = [pc EXCEPT ![NextWorker] = "init"]
          /\ m_PlanningFuture' = NextWorker
          /\ IF ~releaseBlocks(m_PlanningFuture)
             THEN joining' = 0 /\ m_PlannerStateMutex' = "free"
             ELSE joining' = m_PlanningFuture /\ m_PlannerStateMutex' = "startPlanner"
          /\ UNCHANGED m_PlannerState
    /\ UNCHANGED <<localVars, configVars, m_RibbonManager, cycle>>

\* the end of startPlanner when it had to wait for the previous worker
startPlanner_join ==
    /\ joining # 0
    /\ pc[joining] \in Finished
    /\ joining' = 0
    /\ m_PlannerStateMutex' = "free"
    /\ UNCHANGED <<m_PlannerState, m_PlanningFuture, pc, localVars,
                   configVars, m_RibbonManager, cycle>>

\* Executive::cancelPlanner, called by the control thread
cancelPlanner ==
    /\ joining = 0
    /\ m_PlannerStateMutex = "free"
    /\ m_PlannerState' = cancelEffect(m_PlannerState)
    /\ cycle' = [w \in Workers |->
                   IF pc[w] = "planning" /\ m_PlannerState' # m_PlannerState
                   THEN [cycle[w] EXCEPT !.cancelledInPlan = TRUE] ELSE cycle[w]]
    /\ UNCHANGED <<m_PlannerStateMutex, m_PlanningFuture, joining, pc,
                   localVars, configVars, m_RibbonManager>>

\* Executive::terminate
terminate == cancelPlanner

(***************************************************************************)
(* Transport thread: ribbons and configuration.                            *)
(***************************************************************************)
\* Executive::addRibbon
addRibbon ==
    /\ m_RibbonManager < MaxRibbons
    /\ m_RibbonManager' = m_RibbonManager + 1
    /\ UNCHANGED <<lifecycleVars, pc, localVars, configVars, cycle>>

\* Executive::updateCovered, for a position that completes a ribbon
updateCovered ==
    /\ m_RibbonManager > 0
    /\ m_RibbonManager' = m_RibbonManager - 1
    /\ UNCHANGED <<lifecycleVars, pc, localVars, configVars, cycle>>

\* Executive::setConfiguration (the settings the loop reads)
setConfiguration ==
    /\ \E k \in WhichPlanner, h \in ConfigHorizons, m \in ConfigMinimums :
          /\ m_WhichPlanner' = k
          /\ timeHorizon' = h
          /\ timeMinimum' = m
    /\ UNCHANGED <<lifecycleVars, pc, localVars, m_RibbonManager, cycle>>

(***************************************************************************)
(* Planning worker: Executive::planLoop outside the cycle.                 *)
(***************************************************************************)
\* executive.cpp:61: the start is refused when the state is still Cancelled
initRefuses(st) == st = "Cancelled"

\* executive.cpp:72-80: the locals as the loop is entered
enterLoop(w) ==
    /\ m_PlannerState' = "Running"
    /\ pc' = [pc EXCEPT ![w] = "top"]
    /\ startState' = [startState EXCEPT ![w] = DefaultState]
    /\ plan' = [plan EXCEPT ![w] = NoPlan]
    /\ lastPlanAchievable' = [lastPlanAchievable EXCEPT ![w] = FALSE]
    /\ failureCount' = [failureCount EXCEPT ![w] = 0]
    /\ cycle' = [cycle EXCEPT ![w] = NewCycle]

\* a planLoop whose catch blocks return instead of falling through
afterLoop_returnsOnError(cause) ==
    IF cause \in {"std", "unknown"} THEN "exit" ELSE "taskStats"

\* executive.cpp:354-365: where planLoop goes on after the loop, by what ended
\* it: a break ("cancelled", "ribbonsDone") or an exception caught by one of
\* the handlers that close the try block ("std", "unknown")
afterLoop(cause) == "taskStats"

\* the locals go out of scope when the loop is left
leaveLoopAfter(w, to, rpc) ==
    /\ pc' = [pc EXCEPT ![w] = to]
    /\ startState' = [startState EXCEPT ![w] = DefaultState]
    /\ plan' = [plan EXCEPT ![w] = NoPlan]
    /\ lastPlanAchievable' = [lastPlanAchievable EXCEPT ![w] = FALSE]
    /\ failureCount' = [failureCount EXCEPT ![w] = 0]
    /\ cycle' = [cycle EXCEPT ![w] = [NewCycle EXCEPT !.rpc = rpc]]

leaveLoop(w, to) == leaveLoopAfter(w, to, cycle[w].rpc)

\* executive.cpp:58-70: lock, wait_for(2 s, state != Cancelled), set Running.
\* With the state Cancelled the wait releases the mutex and the worker sleeps.
planLoop_init(w) ==
    /\ pc[w] = "init"
    /\ m_PlannerStateMutex = "free"
    /\ IF m_PlannerState = "Cancelled"
       THEN /\ pc' = [pc EXCEPT ![w] = "initWait"]
            /\ UNCHANGED <<m_PlannerState, localVars, cycle>>
       ELSE enterLoop(w)
    /\ UNCHANGED <<m_PlannerStateMutex, m_PlanningFuture, joining,
                   configVars, m_RibbonManager>>

\* executive.cpp:60-69: wait_for returns (predicate true after a notify, or
\* the 2 s have passed) with the mutex re-acquired
planLoop_initWaitEnd(w) ==
    /\ pc[w] = "initWait"
    /\ m_PlannerStateMutex = "free"
    /\ IF initRefuses(m_PlannerState)
       THEN /\ pc' = [pc EXCEPT ![w] = "refused"]
            /\ UNCHANGED <<m_PlannerState, localVars, cycle>>
       ELSE enterLoop(w)
    /\ UNCHANGED <<m_PlannerStateMutex, m_PlanningFuture, joining,
                   configVars, m_RibbonManager>>

\* a loop that looks at the ribbons before it looks at the state
topCheck_ribbonsFirst(st, ribbons) ==
    IF ribbons = 0 THEN "ribbonsDone"
    ELSE IF st = "Cancelled" THEN "cancelled" ELSE "go"

\* executive.cpp:106-123: what the top of a cycle decides: break on
\* Cancelled, else break after allDone() when the ribbons are done, else go on
topCheck(st, ribbons) ==
    IF st = "Cancelled" THEN "cancelled"
    ELSE IF ribbons = 0 THEN "ribbonsDone" ELSE "go"

\* executive.cpp:106-123: cancellation check, then ribbon completion check
planLoop_top(w) ==
    /\ pc[w] = "top"
    /\ m_PlannerStateMutex = "free"
    /\ LET check == topCheck(m_PlannerState, m_RibbonManager)
       IN  IF check # "go"
           THEN /\ pc' = [pc EXCEPT ![w] = afterLoop(check)]
                /\ startState' = [startState EXCEPT ![w] = DefaultState]
                /\ plan' = [plan EXCEPT ![w] = NoPlan]
                /\ lastPlanAchievable' = [lastPlanAchievable EXCEPT ![w] = FALSE]
                /\ failureCount' = [failureCount EXCEPT ![w] = 0]
                /\ cycle' = [cycle EXCEPT ![w] =
                      [NewCycle EXCEPT !.rpc = cycle[w].rpc,
                                       !.allDone = IF check = "ribbonsDone" THEN 1 ELSE 0]]
           ELSE /\ pc' = [pc EXCEPT ![w] = "prepare"]
                /\ cycle' = [cycle EXCEPT ![w].calledPlan = FALSE, ![w].planThrew = FALSE,
                                          ![w].rpc = "none", ![w].cancelledInPlan = FALSE]
                /\ UNCHANGED localVars
    /\ UNCHANGED <<lifecycleVars, configVars, m_RibbonManager>>

\* executive.cpp:365-375: task-level stats; an exception thrown by the
\* publication escapes planLoop and ends the thread
planLoop_taskStats(w) ==
    /\ pc[w] = "taskStats"
    /\ \E threw \in BOOLEAN :
          /\ pc' = [pc EXCEPT ![w] = IF threw THEN "crashed" ELSE "exit"]
          /\ cycle' = IF threw THEN [cycle EXCEPT ![w] = NewCycle] ELSE cycle
    /\ UNCHANGED <<lifecycleVars, localVars, configVars, m_RibbonManager>>

\* executive.cpp:376-379: lock, set Inactive, notify_all
planLoop_exit(w) ==
    /\ pc[w] = "exit"
    /\ m_PlannerStateMutex = "free"
    /\ m_PlannerState' = "Inactive"
    /\ pc' = [pc EXCEPT ![w] = "done"]
    /\ cycle' = [cycle EXCEPT ![w] = NewCycle]
    /\ UNCHANGED <<m_PlannerStateMutex, m_PlanningFuture, joining,
                   localVars, configVars, m_RibbonManager>>

(***************************************************************************)
(* Planning worker: one cycle of the loop.                                 *)
(***************************************************************************)
\* executive.h: c_ReusePlanEnabled
c_ReusePlanEnabled == TRUE

\* a loop that replans on every cycle, whichever planner is selected
skipPlanning_never(which, p) == FALSE

\* executive.cpp:230-236: BIT* does not replan while it has a plan
skipPlanning(which, p) == which = "BitStar" /\ ~empty(p)

\* executive.cpp:124-236: derive the start state when the previous cycle left
\* none (m_LastState pushed to the end of the planning time; its position is
\* the origin of the cross-track axis), drop the part of the retained plan
\* that lies in the past, take the snapshots, and enter planner.plan unless
\* BIT* already has a plan
planLoop_prepare(w) ==
    /\ pc[w] = "prepare"
    /\ \E pushed \in {State(0, t) : t \in Times} :
          LET start == IF startState[w].time = -1 THEN pushed ELSE startState[w]
              kept == IF c_ReusePlanEnabled THEN plan[w] ELSE NoPlan
              suffix == changeIntoSuffix(kept, start.time)
              previous == IF empty(kept) THEN kept ELSE suffix.plan
          IN  /\ startState[w].time # -1 => pushed = State(0, 0)
              /\ startState' = [startState EXCEPT ![w] = start]
              /\ plan' = [plan EXCEPT ![w] = previous]
              /\ \E crash \in BOOLEAN :
                    /\ crash => ~empty(kept) /\ suffix.ub
                    /\ pc' = [pc EXCEPT ![w] =
                                IF crash THEN "crashed"
                                ELSE IF skipPlanning(m_WhichPlanner, previous) THEN "publish"
                                ELSE "planning"]
                    /\ cycle' = [cycle EXCEPT ![w].calledPlan =
                                   ~crash /\ ~skipPlanning(m_WhichPlanner, previous)]
    /\ UNCHANGED <<lifecycleVars, lastPlanAchievable, failureCount, configVars,
                   m_RibbonManager>>

\* Planner::plan: a plan (empty when no solution was found) or an exception
PlannerOutcomes ==
    {[kind |-> "plan", plan |-> p] : p \in Plans}
        \cup {[kind |-> "std", plan |-> NoPlan], [kind |-> "unknown", plan |-> NoPlan]}

\* a handler that leaves stats.Plan as it was before the call
planAfterException_keeps(p) == p

\* executive.cpp:255-262: what is left in stats.Plan after a std::exception
planAfterException(p) == NoPlan

\* executive.cpp:241-267: planner.plan returns or throws.  catch (...) calls
\* cancelPlanner and rethrows to the catch (...) at the end of planLoop.
planLoop_planReturn(w) ==
    /\ pc[w] = "planning"
    /\ \E r \in PlannerOutcomes :
          /\ r.kind # "unknown" /\ empty(r.plan) => failureCount[w] < MaxEmptyRun
          /\ IF r.kind = "unknown"
             THEN /\ m_PlannerStateMutex = "free"
                  /\ m_PlannerState' = cancelEffect(m_PlannerState)
                  /\ leaveLoop(w, afterLoop("unknown"))
             ELSE /\ plan' = [plan EXCEPT ![w] =
                                IF r.kind = "std" THEN planAfterException(plan[w]) ELSE r.plan]
                  /\ cycle' = [cycle EXCEPT ![w].planThrew = (r.kind = "std")]
                  /\ pc' = [pc EXCEPT ![w] = "publish"]
                  /\ UNCHANGED <<m_PlannerState, startState, lastPlanAchievable,
                                 failureCount>>
    /\ UNCHANGED <<m_PlannerStateMutex, m_PlanningFuture, joining,
                   configVars, m_RibbonManager>>

\* NodeBase::publishPlan: the controller's state when the service call
\* succeeds, a default State() when it fails
publishPlan(callOk, response) == IF callOk THEN response ELSE DefaultState

\* what the publishPlan call of executive.cpp:296 can do: return the state the
\* controller reported, return State() after a failed call, or throw
PublishOutcomes ==
    {[kind |-> "state", ok |-> TRUE, response |-> s] : s \in States \ {DefaultState}}
        \cup {[kind |-> "state", ok |-> FALSE, response |-> DefaultState],
              [kind |-> "std", ok |-> FALSE, response |-> DefaultState],
              [kind |-> "unknown", ok |-> FALSE, response |-> DefaultState]}

\* the controller RPC failed: the call returned false or publishPlan threw
RpcFailure(r) == r.kind # "state" \/ ~r.ok

rpcOf(r) == IF RpcFailure(r) THEN "failed" ELSE "ok"

\* handlers that only log
afterPublishHandlers_logOnly(r, st) == st

\* executive.cpp:298-308: both handlers of the publishPlan try call cancelPlanner
afterPublishHandlers(r, st) == IF r.kind = "state" THEN st ELSE cancelEffect(st)

\* executive.cpp:311-316: leave the loop when the controller's state is not on
\* the plan and the planner has been cancelled
breaksAfterPublish(p, s, st) == ~containsTime(p, s.time) /\ st = "Cancelled"

\* a loop that never takes the controller to have deviated
deviates_never(s, expected) == FALSE

\* executive.cpp:320: the controller deviated from the plan
deviates(s, expected) == ~isCoLocated(s, expected)

\* executive.cpp:291-337: the cycle ends with a plan: publish it, compare the
\* controller's state with the plan
endWithPlan(w, r) ==
    LET st1 == afterPublishHandlers(r, m_PlannerState)
        s == IF r.kind = "state" THEN publishPlan(r.ok, r.response) ELSE startState[w]
        expected == sample(plan[w], s)
    IN  /\ r.kind # "state" => m_PlannerStateMutex = "free"
        /\ IF r.kind = "unknown"
           THEN \* rethrown to the catch (...) at the end of planLoop
                /\ m_PlannerState' = st1
                /\ leaveLoopAfter(w, afterLoop("unknown"), rpcOf(r))
           ELSE IF ~containsTime(plan[w], s.time)
           THEN /\ m_PlannerStateMutex = "free"
                /\ leaveLoopAfter(w,
                      afterLoop(IF breaksAfterPublish(plan[w], s, st1) THEN "cancelled" ELSE "std"),
                      rpcOf(r))
                /\ IF breaksAfterPublish(plan[w], s, st1)
                   THEN m_PlannerState' = st1
                   ELSE \* sample() throws: catch (std::exception) at the end
                        \* of planLoop calls cancelPlanner
                        m_PlannerState' = cancelEffect(st1)
           ELSE /\ m_PlannerState' = st1
                /\ startState' = [startState EXCEPT ![w] = s]
                /\ failureCount' = [failureCount EXCEPT ![w] = 0]
                /\ plan' = [plan EXCEPT ![w] =
                              IF deviates(s, expected.state) THEN NoPlan ELSE plan[w]]
                /\ lastPlanAchievable' = [lastPlanAchievable EXCEPT ![w] =
                              ~deviates(s, expected.state)]
                /\ cycle' = [cycle EXCEPT ![w].deviated = ~isCoLocated(s, expected.state),
                                          ![w].rpc = rpcOf(r),
                                          ![w].cancelledInPlan = FALSE]
                /\ pc' = [pc EXCEPT ![w] = "top"]
        /\ UNCHANGED configVars

\* a back-off that resets the counter after the clamp as well
backOff_resets(count, horizon, minimum) ==
    LET failures == count + 1
        halved == horizon \div 2
    IN  IF failures > 2
        THEN [failureCount |-> 0,
              timeHorizon |-> IF halved < minimum THEN minimum ELSE halved]
        ELSE [failureCount |-> failures, timeHorizon |-> horizon]

\* a back-off that halves after more than 1 failure in a row
backOff_early(count, horizon, minimum) ==
    LET failures == count + 1
        halved == horizon \div 2
    IN  IF failures > 1
        THEN IF halved < minimum
             THEN [failureCount |-> failures, timeHorizon |-> minimum]
             ELSE [failureCount |-> 0, timeHorizon |-> halved]
        ELSE [failureCount |-> failures, timeHorizon |-> horizon]

\* executive.cpp:341-352: count the failure; after more than 2 in a row halve
\* the time horizon, not below the minimum
backOff(count, horizon, minimum) ==
    LET failures == count + 1
        halved == horizon \div 2
    IN  IF failures > 2
        THEN IF halved < minimum
             THEN [failureCount |-> failures, timeHorizon |-> minimum]
             ELSE [failureCount |-> 0, timeHorizon |-> halved]
        ELSE [failureCount |-> failures, timeHorizon |-> horizon]

\* executive.cpp:338-353: the cycle ends without a plan
endWithoutPlan(w) ==
    LET b == backOff(failureCount[w], timeHorizon, timeMinimum)
    IN  /\ startState' = [startState EXCEPT ![w] = DefaultState]
        /\ failureCount' = [failureCount EXCEPT ![w] = b.failureCount]
        /\ timeHorizon' = b.timeHorizon
        /\ cycle' = [cycle EXCEPT ![w].deviated = FALSE, ![w].cancelledInPlan = FALSE]
        /\ pc' = [pc EXCEPT ![w] = "top"]
        /\ UNCHANGED <<m_PlannerState, plan, lastPlanAchievable, m_WhichPlanner, timeMinimum>>

\* executive.cpp:269-353: publishStats(.., lastPlanAchievable), the sleep to
\* the end of the cycle, the display of getHalfSecondSamples (whose
\* runtime_error goes to the catch at the end of planLoop: cancelPlanner),
\* then the plan is published or the failure counted
planLoop_endOfCycle(w) ==
    /\ pc[w] = "publish"
    /\ IF samplesThrow(plan[w])
       THEN /\ m_PlannerStateMutex = "free"
            /\ m_PlannerState' = cancelEffect(m_PlannerState)
            /\ leaveLoop(w, afterLoop("std"))
            /\ UNCHANGED configVars
       ELSE IF empty(plan[w])
       THEN endWithoutPlan(w)
       ELSE \E r \in PublishOutcomes : endWithPlan(w, r)
    /\ UNCHANGED <<m_PlannerStateMutex, m_PlanningFuture, joining, m_RibbonManager>>

\* Executive::planLoop, one step of worker w
planLoop(w) ==
    \/ planLoop_init(w)
    \/ planLoop_initWaitEnd(w)
    \/ planLoop_top(w)
    \/ planLoop_prepare(w)
    \/ planLoop_planReturn(w)
    \/ planLoop_endOfCycle(w)
    \/ planLoop_taskStats(w)
    \/ planLoop_exit(w)

\* the observer is not part of the program: the program's steps leave it alone
Untracked(A) == A /\ UNCHANGED <<backoff, dp, call, dataVars>>

Next ==
    \/ Untracked(startPlanner)
    \/ Untracked(startPlanner_join)
    \/ Untracked(cancelPlanner)
    \/ Untracked(terminate)
    \/ Untracked(addRibbon)
    \/ Untracked(updateCovered)
    \/ Untracked(setConfiguration)
    \/ \E w \in Workers : Untracked(planLoop(w))

Spec == Init /\ [][Next]_vars

\* the scheduler runs every worker thread that can take a step, and
\* startPlanner returns once the worker it waits for has finished
FairSpec ==
    /\ Spec
    /\ \A w \in Workers : WF_vars(Untracked(planLoop(w)))
    /\ WF_vars(Untracked(startPlanner_join))

(***************************************************************************)
(* The loop of one worker running undisturbed, from every configuration,   *)
(* with an observer of its runs of empty-plan cycles.                      *)
(***************************************************************************)
LoopHorizons == {Seconds(60), Seconds(40), Seconds(20)}
LoopMinimums == {Seconds(15), Seconds(10)}

InitLoop ==
    /\ InitData
    /\ InitUnits
    /\ m_UseGaussianDynamicObstacles = TRUE
    /\ m_PlannerState = "Running"
    /\ m_PlannerStateMutex = "free"
    /\ m_PlanningFuture = 1
    /\ joining = 0
    /\ pc = [w \in Workers |-> IF w = 1 THEN "top" ELSE "unborn"]
    /\ startState = [w \in Workers |-> DefaultState]
    /\ plan = [w \in Workers |-> NoPlan]
    /\ lastPlanAchievable = [w \in Workers |-> FALSE]
    /\ failureCount = [w \in Workers |-> 0]
    /\ m_WhichPlanner \in WhichPlanner
    /\ timeHorizon \in LoopHorizons
    /\ timeMinimum \in LoopMinimums
    /\ m_RibbonManager = 1
    /\ cycle = [w \in Workers |-> NewCycle]
    /\ backoff = [n |-> 0, from |-> timeHorizon]
    /\ dp = NoPlan
    /\ call = NoCall

\* n counts the empty-plan cycles since the worker entered the loop or last
\* ended a cycle with a plan; from is the time horizon at that moment
Tracked(A) ==
    /\ A
    /\ UNCHANGED <<dp, call, dataVars>>
    /\ pc'[1] = "publish" /\ empty(plan'[1]) => backoff.n < MaxEmptyRun
    /\ backoff' = IF pc[1] = "publish" /\ pc'[1] = "top"
                  THEN IF empty(plan[1]) THEN [backoff EXCEPT !.n = @ + 1]
                       ELSE [n |-> 0, from |-> timeHorizon']
                  ELSE IF pc'[1] \in InLoop THEN backoff ELSE NoBackoff

NextLoop ==
    \/ Tracked(planLoop_top(1))
    \/ Tracked(planLoop_prepare(1))
    \/ Tracked(planLoop_planReturn(1))
    \/ Tracked(planLoop_endOfCycle(1))
    \/ Tracked(planLoop_taskStats(1))
    \/ Tracked(planLoop_exit(1))

SpecLoop == InitLoop /\ [][NextLoop]_vars

(***************************************************************************)
(* A DubinsPlan object taken on its own: every plan of at most MaxSegs      *)
(* segments in time order over 0..MaxPlanT, and the member functions of     *)
(* DubinsPlan.cpp called on it in any order.                                *)
(***************************************************************************)
PlanTimes == 0..MaxPlanT

\* segment number i of a plan: consecutive segments lie on different tracks,
\* so that a sample tells which segment it was read from
Leg(s, e, i) == [startTime |-> s, endTime |-> e, x |-> i % 2]

\* the plans of at most n more segments, none starting before t, the next
\* one being segment number i
RECURSIVE PlansFrom(_, _, _)
PlansFrom(t, n, i) ==
    IF n = 0 THEN {NoPlan}
    ELSE {NoPlan} \cup UNION {{<<Leg(se[1], se[2], i)>> \o q : q \in PlansFrom(se[2], n - 1, i + 1)} :
                               se \in {d \in (t..MaxPlanT) \X (t..MaxPlanT) : d[1] <= d[2]}}

DubinsPlans == PlansFrom(0, MaxSegs, 1)

InitPlan ==
    /\ InitData
    /\ InitUnits
    /\ m_UseGaussianDynamicObstacles = TRUE
    /\ m_PlannerState = "Inactive"
    /\ m_PlannerStateMutex = "free"
    /\ m_PlanningFuture = 0
    /\ joining = 0
    /\ pc = [w \in Workers |-> "unborn"]
    /\ startState = [w \in Workers |-> DefaultState]
    /\ plan = [w \in Workers |-> NoPlan]
    /\ lastPlanAchievable = [w \in Workers |-> FALSE]
    /\ failureCount = [w \in Workers |-> 0]
    /\ m_WhichPlanner = "BitStar"
    /\ timeHorizon = Seconds(60)
    /\ timeMinimum = Seconds(15)
    /\ m_RibbonManager = 0
    /\ cycle = [w \in Workers |-> NewCycle]
    /\ backoff = NoBackoff
    /\ dp \in DubinsPlans
    /\ call = NoCall

executiveVars == <<m_PlannerState, m_PlannerStateMutex, m_PlanningFuture, joining, pc,
                   startState, plan, lastPlanAchievable, failureCount, m_WhichPlanner,
                   timeHorizon, timeMinimum, m_RibbonManager, cycle, backoff, dataVars>>

\* DubinsPlan.cpp:19-22: the runtime_error sample() ends with; the message is
\* built with getStartTime(), which throws its own error on an empty plan
sampleError(p) == IF empty(p) THEN "Cannot access empty plan" ELSE "outside DubinsPlan bounds"

\* DubinsPlan::sample(State& s)
DubinsPlan_sample ==
    \E s \in {State(x, t) : x \in Xs, t \in PlanTimes \cup {-1}} :
        LET r == sample(dp, s)
        IN  /\ call.outcome # "crashed"
            /\ call' = [NoCall EXCEPT !.op = "sample", !.t = s.time, !.before = dp,
                                      !.outcome = IF r.ok THEN "returned" ELSE "threw",
                                      !.state = r.state,
                                      !.what = IF r.ok THEN "" ELSE sampleError(dp)]
            /\ UNCHANGED <<dp, executiveVars>>

\* DubinsPlan::containsTime(double time)
DubinsPlan_containsTime ==
    \E t \in PlanTimes \cup {-1} :
        /\ call.outcome # "crashed"
        /\ call' = [NoCall EXCEPT !.op = "containsTime", !.t = t, !.before = dp,
                                  !.flag = containsTime(dp, t)]
        /\ UNCHANGED <<dp, executiveVars>>

\* DubinsPlan::empty()
DubinsPlan_empty ==
    /\ call.outcome # "crashed"
    /\ call' = [NoCall EXCEPT !.op = "empty", !.before = dp, !.flag = empty(dp)]
    /\ UNCHANGED <<dp, executiveVars>>

\* DubinsPlan::getStartTime()
DubinsPlan_getStartTime ==
    /\ call.outcome # "crashed"
    /\ call' = IF empty(dp)
               THEN [NoCall EXCEPT !.op = "getStartTime", !.before = dp, !.outcome = "threw",
                                   !.what = "Cannot access empty plan"]
               ELSE [NoCall EXCEPT !.op = "getStartTime", !.before = dp,
                                   !.num = getStartTime(dp)]
    /\ UNCHANGED <<dp, executiveVars>>

\* DubinsPlan::getEndTime()
DubinsPlan_getEndTime ==
    /\ call.outcome # "crashed"
    /\ call' = IF empty(dp)
               THEN [NoCall EXCEPT !.op = "getEndTime", !.before = dp, !.outcome = "threw",
                                   !.what = "Cannot access empty plan"]
               ELSE [NoCall EXCEPT !.op = "getEndTime", !.before = dp,
                                   !.num = getEndTime(dp)]
    /\ UNCHANGED <<dp, executiveVars>>

\* DubinsPlan::changeIntoSuffix(double startTime).  When the loop has erased
\* every segment, front() is called on an empty vector: the behaviour is
\* undefined, and the call either ends the process or returns.
DubinsPlan_changeIntoSuffix ==
    \E t \in PlanTimes, crash \in BOOLEAN :
        LET r == changeIntoSuffix(dp, t)
        IN  /\ call.outcome # "crashed"
            /\ crash => r.ub
            /\ call' = [NoCall EXCEPT !.op = "changeIntoSuffix", !.t = t, !.before = dp,
                                      !.outcome = IF ~r.ok THEN "threw"
                                                  ELSE IF crash THEN "crashed" ELSE "returned",
                                      !.ub = r.ub,
                                      !.what = IF r.ok THEN "" ELSE "Cannot access empty plan"]
            /\ dp' = r.plan
            /\ UNCHANGED executiveVars

\* DubinsPlan::getHalfSecondSamples()
DubinsPlan_getHalfSecondSamples ==
    LET r == getHalfSecondSamples(dp)
    IN  /\ call.outcome # "crashed"
        /\ call' = [NoCall EXCEPT !.op = "getHalfSecondSamples", !.before = dp,
                                  !.outcome = IF r.ok THEN "returned" ELSE "threw",
                                  !.samples = r.samples,
                                  !.what = IF r.ok THEN "" ELSE sampleError(dp)]
        /\ UNCHANGED <<dp, executiveVars>>

\* NodeBase::convertToPlanMsg(plan)
NodeBase_convertToPlanMsg ==
    LET r == convertToPlanMsg(dp)
    IN  /\ call.outcome # "crashed"
        /\ call' = [NoCall EXCEPT !.op = "convertToPlanMsg", !.before = dp,
                                  !.outcome = IF r.ok THEN "returned" ELSE "threw",
                                  !.msg = r.msg,
                                  !.what = IF r.ok THEN "" ELSE "Cannot access empty plan"]
        /\ UNCHANGED <<dp, executiveVars>>

NextPlan ==
    \/ NodeBase_convertToPlanMsg
    \/ DubinsPlan_getHalfSecondSamples
    \/ DubinsPlan_sample
    \/ DubinsPlan_containsTime
    \/ DubinsPlan_empty
    \/ DubinsPlan_getStartTime
    \/ DubinsPlan_getEndTime
    \/ DubinsPlan_changeIntoSuffix

SpecPlan == InitPlan /\ [][NextPlan]_vars

(***************************************************************************)
(* The shared data of the Executive: the planning worker going through    *)
(* the blocks of one cycle that touch it, the transport thread posting     *)
(* updates, and the detached thread of refreshMap.  A block that touches   *)
(* shared data is two steps, so that other threads run in between; a       *)
(* lock_guard is taken in the first and released in the second.            *)
(***************************************************************************)
lock(m, t) == mutex[m] = "free" /\ mutex' = [mutex EXCEPT ![m] = t]
unlock(m, t) == mutex[m] = t /\ mutex' = [mutex EXCEPT ![m] = "free"]
goto(t, to) == at' = [at EXCEPT ![t] = to]

\* the state other than the shared data and the ribbons
planVars == <<m_PlannerState, m_PlannerStateMutex, m_PlanningFuture, joining, pc,
              startState, plan, lastPlanAchievable, failureCount, m_WhichPlanner,
              timeHorizon, timeMinimum, cycle, backoff, dp, call, obstacle, projected,
              unitVars>>

mapVars == <<m_NewMap, map, mapsPosted, installed, lock1>>
obstacleVars == <<m_GaussianDynamicObstaclesManager, m_BinaryDynamicObstaclesManager,
                  m_UseGaussianDynamicObstacles>>

InitShare ==
    /\ InitData
    /\ InitUnits
    /\ m_UseGaussianDynamicObstacles \in BOOLEAN
    /\ m_PlannerState = "Inactive"
    /\ m_PlannerStateMutex = "free"
    /\ m_PlanningFuture = 0
    /\ joining = 0
    /\ pc = [w \in Workers |-> "unborn"]
    /\ startState = [w \in Workers |-> DefaultState]
    /\ plan = [w \in Workers |-> NoPlan]
    /\ lastPlanAchievable = [w \in Workers |-> FALSE]
    /\ failureCount = [w \in Workers |-> 0]
    /\ m_WhichPlanner = "BitStar"
    /\ timeHorizon = Seconds(60)
    /\ timeMinimum = Seconds(15)
    /\ m_RibbonManager = 0
    /\ cycle = [w \in Workers |-> NewCycle]
    /\ backoff = NoBackoff
    /\ dp = NoPlan
    /\ call = NoCall

\* std::async launches planLoop (the worker is not running)
worker_start ==
    /\ at["worker"] = "idle"
    /\ goto("worker", "cancelCheck")
    /\ UNCHANGED <<mutex, mapVars, obstacleVars, handed, m_RibbonManager, planVars>>

\* executive.cpp:106-112: the cancellation check; Cancelled breaks
worker_cancelCheck ==
    /\ at["worker"] = "cancelCheck"
    /\ \E cancelled \in BOOLEAN :
          goto("worker", IF cancelled THEN "taskStats" ELSE "ribbonsDone")
    /\ lock1' = FALSE
    /\ UNCHANGED <<mutex, m_NewMap, map, mapsPosted, installed, obstacleVars, handed,
                   m_RibbonManager, planVars>>

\* executive.cpp:115-117: lock_guard on m_RibbonManagerMutex
worker_ribbonsDone_lock ==
    /\ at["worker"] = "ribbonsDone"
    /\ lock("m_RibbonManagerMutex", "worker")
    /\ goto("worker", "inRibbonsDone")
    /\ UNCHANGED <<mapVars, obstacleVars, handed, m_RibbonManager, planVars>>

\* executive.cpp:117-123: done() breaks after allDone()
worker_ribbonsDone_unlock ==
    /\ at["worker"] = "inRibbonsDone"
    /\ unlock("m_RibbonManagerMutex", "worker")
    /\ goto("worker", IF m_RibbonManager = 0 THEN "taskStats" ELSE "display")
    /\ UNCHANGED <<mapVars, obstacleVars, handed, m_RibbonManager, planVars>>

\* executive.cpp:125-127
worker_display_lock ==
    /\ at["worker"] = "display"
    /\ lock("m_RibbonManagerMutex", "worker")
    /\ goto("worker", "inDisplay")
    /\ UNCHANGED <<mapVars, obstacleVars, handed, m_RibbonManager, planVars>>

\* executive.cpp:128, then 131: m_LastState is pushed when the last cycle
\* left no start state
worker_display_unlock ==
    /\ at["worker"] = "inDisplay"
    /\ unlock("m_RibbonManagerMutex", "worker")
    /\ \E noStart \in BOOLEAN : goto("worker", IF noStart THEN "inPush" ELSE "tryMap")
    /\ UNCHANGED <<mapVars, obstacleVars, handed, m_RibbonManager, planVars>>

\* executive.cpp:133-134: m_LastState.push(...) has been evaluated
worker_push_end ==
    /\ at["worker"] = "inPush"
    /\ goto("worker", "tryMap")
    /\ UNCHANGED <<mutex, mapVars, obstacleVars, handed, m_RibbonManager, planVars>>

\* executive.cpp:140-141: try_lock on m_MapMutex; the cycle goes on without
\* the lock when another thread holds it
worker_tryLockMap ==
    /\ at["worker"] = "tryMap"
    /\ IF mutex["m_MapMutex"] = "free"
       THEN /\ lock("m_MapMutex", "worker")
            /\ lock1' = TRUE
            /\ goto("worker", "inMap")
       ELSE /\ lock1' = FALSE
            /\ goto("worker", "penalty")
            /\ UNCHANGED mutex
    /\ UNCHANGED <<m_NewMap, map, mapsPosted, installed, obstacleVars, handed,
                   m_RibbonManager, planVars>>

\* a block that sets the map from the slot whatever the slot holds
installMap_always(newMap, current) == newMap

\* executive.cpp:142-144: the map of the config after the block
installMap(newMap, current) == IF newMap # 0 THEN newMap ELSE current

\* executive.cpp:142-160: install the posted map, empty the slot, unlock
worker_installMap ==
    /\ at["worker"] = "inMap"
    /\ map' = installMap(m_NewMap, map)
    /\ installed' = IF m_NewMap # 0 THEN Append(installed, m_NewMap) ELSE installed
    /\ m_NewMap' = 0
    /\ unlock("m_MapMutex", "worker")
    /\ goto("worker", "penalty")
    /\ UNCHANGED <<mapsPosted, lock1, obstacleVars, handed, m_RibbonManager, planVars>>

\* executive.cpp:180-182: the Gaussian manager is read under its mutex, the
\* binary manager without one
worker_penalty_begin ==
    /\ at["worker"] = "penalty"
    /\ IF m_UseGaussianDynamicObstacles
       THEN lock("m_GaussianDynamicObstaclesManagerMutex", "worker")
       ELSE UNCHANGED mutex
    /\ goto("worker", "inPenalty")
    /\ UNCHANGED <<mapVars, obstacleVars, handed, m_RibbonManager, planVars>>

\* executive.cpp:183-196: collisionExists(m_LastState) has returned; the
\* config is given the handle of the manager in use
worker_penalty_end ==
    /\ at["worker"] = "inPenalty"
    /\ IF m_UseGaussianDynamicObstacles
       THEN unlock("m_GaussianDynamicObstaclesManagerMutex", "worker")
       ELSE UNCHANGED mutex
    /\ handed' = [NothingHanded EXCEPT
                    !.manager = IF m_UseGaussianDynamicObstacles
                                THEN "m_GaussianDynamicObstaclesManager"
                                ELSE "m_BinaryDynamicObstaclesManager"]
    /\ goto("worker", "copyRibbons")
    /\ UNCHANGED <<mapVars, obstacleVars, m_RibbonManager, planVars>>

\* executive.cpp:206-208
worker_copyRibbons_lock ==
    /\ at["worker"] = "copyRibbons"
    /\ lock("m_RibbonManagerMutex", "worker")
    /\ goto("worker", "inCopyRibbons")
    /\ UNCHANGED <<mapVars, obstacleVars, handed, m_RibbonManager, planVars>>

\* executive.cpp:209-210: ribbonManagerCopy = m_RibbonManager
worker_copyRibbons_unlock ==
    /\ at["worker"] = "inCopyRibbons"
    /\ unlock("m_RibbonManagerMutex", "worker")
    /\ handed' = [handed EXCEPT !.ribbons = m_RibbonManager]
    /\ goto("worker", "inCoverBetween")
    /\ UNCHANGED <<mapVars, obstacleVars, m_RibbonManager, planVars>>

\* RibbonManager::coverBetween: the strip may finish a ribbon
coverBetween(ribbons, finished) == IF finished /\ ribbons > 0 THEN ribbons - 1 ELSE ribbons

\* a cycle that attributes the projected strip on m_RibbonManager itself
afterCoverBetween_onMaster(master, copy, finished) ==
    [master |-> coverBetween(master, finished), copy |-> copy]

\* executive.cpp:213: ribbonManagerCopy.coverBetween(m_LastState -> startState)
afterCoverBetween(master, copy, finished) ==
    [master |-> master, copy |-> coverBetween(copy, finished)]

\* executive.cpp:213: coverBetween(m_LastState ...) on the copy has returned
worker_coverBetween_end ==
    /\ at["worker"] = "inCoverBetween"
    /\ \E finished \in BOOLEAN :
          LET after == afterCoverBetween(m_RibbonManager, handed.ribbons, finished)
          IN  /\ m_RibbonManager' = after.master
              /\ handed' = [handed EXCEPT !.ribbons = after.copy,
                                          !.covered = handed.ribbons - after.copy]
    /\ goto("worker", "copyObstacles")
    /\ UNCHANGED <<mutex, mapVars, obstacleVars, planVars>>

\* executive.cpp:217-218
worker_copyObstacles_lock ==
    /\ at["worker"] = "copyObstacles"
    /\ lock("m_GaussianDynamicObstaclesManagerMutex", "worker")
    /\ goto("worker", "inCopyObstacles")
    /\ UNCHANGED <<mapVars, obstacleVars, handed, m_RibbonManager, planVars>>

\* the obstacles of the manager a handle refers to
obstaclesOf(manager) ==
    IF manager = "m_GaussianDynamicObstaclesManager" THEN m_GaussianDynamicObstaclesManager
    ELSE m_BinaryDynamicObstaclesManager

\* executive.cpp:220-249: get_deep_copy(), unlock, and planner.plan is
\* entered with the copies and the config, unless BIT* keeps its plan
worker_copyObstacles_unlock ==
    /\ at["worker"] = "inCopyObstacles"
    /\ unlock("m_GaussianDynamicObstaclesManagerMutex", "worker")
    /\ \E skip \in BOOLEAN :
          IF skip
          THEN handed' = NothingHanded /\ goto("worker", "cancelCheck")
          ELSE /\ handed' = [handed EXCEPT !.obstacles = m_GaussianDynamicObstaclesManager]
               /\ goto("worker", "plan")
    /\ UNCHANGED <<mapVars, obstacleVars, m_RibbonManager, planVars>>

\* executive.cpp:241-353: planner.plan returns; the rest of the cycle touches
\* none of the shared data
worker_planReturn ==
    /\ at["worker"] = "plan"
    /\ handed' = NothingHanded
    /\ goto("worker", "cancelCheck")
    /\ UNCHANGED <<mutex, mapVars, obstacleVars, m_RibbonManager, planVars>>

\* executive.cpp:365-371: after the loop, getTotalUncoveredLength()
worker_taskStats_begin ==
    /\ at["worker"] = "taskStats"
    /\ goto("worker", "inTaskStats")
    /\ UNCHANGED <<mutex, mapVars, obstacleVars, handed, m_RibbonManager, planVars>>

\* executive.cpp:373-379: planLoop returns
worker_taskStats_end ==
    /\ at["worker"] = "inTaskStats"
    /\ goto("worker", "idle")
    /\ UNCHANGED <<mutex, mapVars, obstacleVars, handed, m_RibbonManager, planVars>>

\* Executive::addRibbon, line 467
addRibbon_lock ==
    /\ at["transport"] = "idle"
    /\ m_RibbonManager < MaxRibbons
    /\ lock("m_RibbonManagerMutex", "transport")
    /\ goto("transport", "inAddRibbon")
    /\ UNCHANGED <<mapVars, obstacleVars, handed, m_RibbonManager, planVars>>

\* Executive::addRibbon, lines 468-470
addRibbon_unlock ==
    /\ at["transport"] = "inAddRibbon"
    /\ m_RibbonManager' = m_RibbonManager + 1
    /\ unlock("m_RibbonManagerMutex", "transport")
    /\ goto("transport", "idle")
    /\ UNCHANGED <<mapVars, obstacleVars, handed, planVars>>

\* Executive::clearRibbons, line 486
clearRibbons_lock ==
    /\ at["transport"] = "idle"
    /\ lock("m_RibbonManagerMutex", "transport")
    /\ goto("transport", "inClearRibbons")
    /\ UNCHANGED <<mapVars, obstacleVars, handed, m_RibbonManager, planVars>>

\* Executive::clearRibbons, lines 487-488: m_RibbonManager is replaced by a
\* new manager with no ribbons and the heuristic TspPointRobotNoSplitKRibbons
clearRibbons_unlock ==
    /\ at["transport"] = "inClearRibbons"
    /\ m_RibbonManager' = 0
    /\ heuristic' = 1
    /\ unlock("m_RibbonManagerMutex", "transport")
    /\ goto("transport", "idle")
    /\ UNCHANGED <<mapVars, obstacleVars, handed, m_PlannerState, m_PlannerStateMutex,
                   m_PlanningFuture, joining, pc, startState, plan, lastPlanAchievable,
                   failureCount, m_WhichPlanner, timeHorizon, timeMinimum, cycle, backoff,
                   dp, call, obstacle, projected, m_LastState, clock, turningRadius,
                   coverageTurningRadius, m_RadiusShrink, m_Preempted, m_ActionDone, goal,
                   display, cancelCalls>>

\* Executive::updateCovered, lines 39-40: the heading-rate gate, then the lock
updateCovered_begin ==
    /\ at["transport"] = "idle"
    /\ \E gate \in BOOLEAN :
          IF gate
          THEN lock("m_RibbonManagerMutex", "transport") /\ goto("transport", "inCover")
          ELSE goto("transport", "inLastState") /\ UNCHANGED mutex
    /\ UNCHANGED <<mapVars, obstacleVars, handed, m_RibbonManager, planVars>>

\* Executive::updateCovered, lines 41-42: cover(x, y), which may finish a ribbon
updateCovered_cover ==
    /\ at["transport"] = "inCover"
    /\ \E finished \in BOOLEAN :
          m_RibbonManager' = IF finished /\ m_RibbonManager > 0
                             THEN m_RibbonManager - 1 ELSE m_RibbonManager
    /\ unlock("m_RibbonManagerMutex", "transport")
    /\ goto("transport", "inLastState")
    /\ UNCHANGED <<mapVars, obstacleVars, handed, planVars>>

\* Executive::updateCovered, lines 43-44: m_LastState = State(...)
updateCovered_end ==
    /\ at["transport"] = "inLastState"
    /\ goto("transport", "idle")
    /\ UNCHANGED <<mutex, mapVars, obstacleVars, handed, m_RibbonManager, planVars>>

\* Executive::updateDynamicObstacle, line 391: update of the binary manager
updateDynamicObstacle_begin ==
    /\ at["transport"] = "idle"
    /\ m_GaussianDynamicObstaclesManager < MaxObstacleUpdates
    /\ goto("transport", "inBinaryUpdate")
    /\ UNCHANGED <<mutex, mapVars, obstacleVars, handed, m_RibbonManager, planVars>>

\* Executive::updateDynamicObstacle, lines 392-394
updateDynamicObstacle_lock ==
    /\ at["transport"] = "inBinaryUpdate"
    /\ m_BinaryDynamicObstaclesManager' = m_BinaryDynamicObstaclesManager + 1
    /\ lock("m_GaussianDynamicObstaclesManagerMutex", "transport")
    /\ goto("transport", "inGaussianUpdate")
    /\ UNCHANGED <<mapVars, m_GaussianDynamicObstaclesManager, m_UseGaussianDynamicObstacles,
                   handed, m_RibbonManager, planVars>>

\* Executive::updateDynamicObstacle, lines 397-406
updateDynamicObstacle_unlock ==
    /\ at["transport"] = "inGaussianUpdate"
    /\ m_GaussianDynamicObstaclesManager' = m_GaussianDynamicObstaclesManager + 1
    /\ unlock("m_GaussianDynamicObstaclesManagerMutex", "transport")
    /\ goto("transport", "idle")
    /\ UNCHANGED <<mapVars, m_BinaryDynamicObstaclesManager, m_UseGaussianDynamicObstacles,
                   handed, m_RibbonManager, planVars>>

\* Executive::setMap, line 411
setMap_lock ==
    /\ at["transport"] = "idle"
    /\ mapsPosted < MaxMaps
    /\ lock("m_MapMutex", "transport")
    /\ goto("transport", "inSetMap")
    /\ UNCHANGED <<mapVars, obstacleVars, handed, m_RibbonManager, planVars>>

\* Executive::setMap, lines 412-414
setMap_unlock ==
    /\ at["transport"] = "inSetMap"
    /\ m_NewMap' = mapsPosted + 1
    /\ mapsPosted' = mapsPosted + 1
    /\ unlock("m_MapMutex", "transport")
    /\ goto("transport", "idle")
    /\ UNCHANGED <<map, installed, lock1, obstacleVars, handed, m_RibbonManager, planVars>>

\* Executive::refreshMap, lines 418 and 463: a detached thread is started
refreshMap ==
    /\ at["transport"] = "idle"
    /\ at["loader"] \in {"idle", "loaded", "failed"}
    /\ goto("loader", "waiting")
    /\ UNCHANGED <<mutex, mapVars, obstacleVars, handed, m_RibbonManager, planVars>>

\* Executive::refreshMap, line 419
refreshMap_lock ==
    /\ at["loader"] = "waiting"
    /\ lock("m_MapMutex", "loader")
    /\ goto("loader", "loading")
    /\ UNCHANGED <<mapVars, obstacleVars, handed, m_RibbonManager, planVars>>

\* what the thread of refreshMap ends with: the empty path, a path without a
\* file, a file that loads, or a loader that throws
LoadOutcomes == {"cleared", "notFound", "loaded", "threw"}

\* executive.cpp:422-457: m_NewMap after the thread of refreshMap, fresh
\* being the map it makes
slotAfterLoad(outcome, slot, fresh) == IF outcome = "threw" THEN 0 ELSE fresh

\* Executive::refreshMap, lines 422-457
refreshMap_unlock ==
    /\ at["loader"] = "loading"
    /\ \E outcome \in LoadOutcomes :
          /\ outcome # "threw" => mapsPosted < MaxMaps
          /\ m_NewMap' = slotAfterLoad(outcome, m_NewMap, mapsPosted + 1)
          /\ mapsPosted' = IF outcome = "threw" THEN mapsPosted ELSE mapsPosted + 1
          /\ goto("loader", IF outcome = "threw" THEN "failed" ELSE "loaded")
    /\ unlock("m_MapMutex", "loader")
    /\ UNCHANGED <<map, installed, lock1, obstacleVars, handed, m_RibbonManager, planVars>>

NextShare ==
    \/ worker_start
    \/ worker_cancelCheck
    \/ worker_ribbonsDone_lock
    \/ worker_ribbonsDone_unlock
    \/ worker_display_lock
    \/ worker_display_unlock
    \/ worker_push_end
    \/ worker_tryLockMap
    \/ worker_installMap
    \/ worker_penalty_begin
    \/ worker_penalty_end
    \/ worker_copyRibbons_lock
    \/ worker_copyRibbons_unlock
    \/ worker_coverBetween_end
    \/ worker_copyObstacles_lock
    \/ worker_copyObstacles_unlock
    \/ worker_planReturn
    \/ worker_taskStats_begin
    \/ worker_taskStats_end
    \/ addRibbon_lock
    \/ addRibbon_unlock
    \/ clearRibbons_lock
    \/ clearRibbons_unlock
    \/ updateCovered_begin
    \/ updateCovered_cover
    \/ updateCovered_end
    \/ updateDynamicObstacle_begin
    \/ updateDynamicObstacle_lock
    \/ updateDynamicObstacle_unlock
    \/ setMap_lock
    \/ setMap_unlock
    \/ refreshMap
    \/ refreshMap_lock
    \/ refreshMap_unlock

SpecShare == InitShare /\ [][NextShare]_vars

(***************************************************************************)
(* A Gaussian obstacle taken on its own: every obstacle the constructor     *)
(* makes within the bounds, and project() called on it.                     *)
(***************************************************************************)
Coords == (0 - MaxCoord)..MaxCoord
ObstacleTimes == 0..MaxObstacleT

InitObstacle ==
    /\ InitUnits
    /\ mutex = [m \in Mutexes |-> "free"]
    /\ at = [t \in Threads |-> "idle"]
    /\ lock1 = FALSE
    /\ m_NewMap = 0
    /\ map = 1
    /\ mapsPosted = 1
    /\ installed = << >>
    /\ m_GaussianDynamicObstaclesManager = 0
    /\ m_BinaryDynamicObstaclesManager = 0
    /\ handed = NothingHanded
    /\ m_UseGaussianDynamicObstacles = TRUE
    /\ m_PlannerState = "Inactive"
    /\ m_PlannerStateMutex = "free"
    /\ m_PlanningFuture = 0
    /\ joining = 0
    /\ pc = [w \in Workers |-> "unborn"]
    /\ startState = [w \in Workers |-> DefaultState]
    /\ plan = [w \in Workers |-> NoPlan]
    /\ lastPlanAchievable = [w \in Workers |-> FALSE]
    /\ failureCount = [w \in Workers |-> 0]
    /\ m_WhichPlanner = "BitStar"
    /\ timeHorizon = Seconds(60)
    /\ timeMinimum = Seconds(15)
    /\ m_RibbonManager = 0
    /\ cycle = [w \in Workers |-> NewCycle]
    /\ backoff = NoBackoff
    /\ dp = NoPlan
    /\ call = NoCall
    /\ \E x \in {0, 1}, heading \in 0..3, speed \in 0..MaxSpeed, time \in ObstacleTimes :
          obstacle = Obstacle(x, 0, heading, speed, time)
    /\ projected = NotProjected

\* Obstacle::project(desiredTime), for the times that keep it within the bounds
Obstacle_project ==
    \E desiredTime \in ObstacleTimes :
        /\ project(obstacle, desiredTime).X \in Coords
        /\ project(obstacle, desiredTime).Y \in Coords
        /\ obstacle' = project(obstacle, desiredTime)
        /\ projected' = [before |-> obstacle, desiredTime |-> desiredTime]
        /\ UNCHANGED <<m_PlannerState, m_PlannerStateMutex, m_PlanningFuture, joining, pc,
                       startState, plan, lastPlanAchievable, failureCount, m_WhichPlanner,
                       timeHorizon, timeMinimum, cycle, backoff, dp, call, m_RibbonManager,
                       mutex, mapVars, obstacleVars, handed, at, unitVars>>

NextObstacle == Obstacle_project

SpecObstacle == InitObstacle /\ [][NextObstacle]_vars

(***************************************************************************)
(* The start state of a cycle: the worker at the lines of planLoop that     *)
(* write startState, updateCovered storing m_LastState, and the clock.      *)
(***************************************************************************)
\* the 13 variables of the shared data
shareVars == <<mutex, at, lock1, m_NewMap, map, mapsPosted, installed,
               m_UseGaussianDynamicObstacles, m_GaussianDynamicObstaclesManager,
               m_BinaryDynamicObstaclesManager, handed, obstacle, projected>>

\* the state of the Executive other than pc, startState and the ribbons
restVars == <<m_PlannerState, m_PlannerStateMutex, m_PlanningFuture, joining, plan,
              lastPlanAchievable, failureCount, m_WhichPlanner, timeHorizon, timeMinimum,
              cycle, backoff, dp, call>>

\* executive.cpp:91: planning_time_actual = m_PlanningTimeIdeal -
\* c_PlanningTimeOverhead, in ticks of the clock
planning_time_actual == 1

\* a start state that is the last state pushed by the planning time
deriveStartState_byPlanningTime(start, last, time) ==
    IF start.time = -1 THEN push(last, planning_time_actual) ELSE start

\* executive.cpp:131-136: with the sentinel in startState, m_LastState is
\* pushed by getTime() + planning time - m_LastState.time()
deriveStartState(start, last, time) ==
    IF start.time = -1 THEN push(last, time + planning_time_actual - last.time) ELSE start

InitStart ==
    /\ InitData
    /\ m_UseGaussianDynamicObstacles = TRUE
    /\ m_PlannerState = "Running"
    /\ m_PlannerStateMutex = "free"
    /\ m_PlanningFuture = 1
    /\ joining = 0
    /\ pc = [w \in Workers |-> IF w = 1 THEN "prepare" ELSE "unborn"]
    /\ startState = [w \in Workers |-> IF w = 1 THEN DefaultVehicleState ELSE DefaultState]
    /\ plan = [w \in Workers |-> NoPlan]
    /\ lastPlanAchievable = [w \in Workers |-> FALSE]
    /\ failureCount = [w \in Workers |-> 0]
    /\ m_WhichPlanner = "BitStar"
    /\ timeHorizon = Seconds(60)
    /\ timeMinimum = Seconds(15)
    /\ m_RibbonManager = 1
    /\ cycle = [w \in Workers |-> NewCycle]
    /\ backoff = NoBackoff
    /\ dp = NoPlan
    /\ call = NoCall
    /\ InitVehicle
    /\ InitRadius
    /\ heuristic = 1
    /\ InitTest
    /\ cancelCalls = {}

\* what the steps of this part leave alone
startFrame ==
    UNCHANGED <<restVars, shareVars, turningRadius, coverageTurningRadius, m_RadiusShrink,
                heuristic, m_Preempted, m_ActionDone, goal, display, cancelCalls>>

\* time passes
Clock_tick ==
    /\ clock < MaxClock
    /\ clock' = clock + 1
    /\ UNCHANGED <<m_LastState, startState, pc, m_RibbonManager>>
    /\ startFrame

\* Executive::updateCovered(x, y, speed, heading, t): covers the ribbons at
\* the position, then stores the state in m_LastState
Vehicle_updateCovered ==
    /\ \E x \in Xs, speed \in 0..MaxSpeed, t \in 0..clock :
          m_LastState' = VehicleState(x, speed, t)
    /\ \E covered \in {0, 1} :
          /\ covered <= m_RibbonManager
          /\ m_RibbonManager' = m_RibbonManager - covered
    /\ UNCHANGED <<clock, startState, pc>>
    /\ startFrame

\* executive.cpp:131-136: the start state of the cycle
planLoop_startState(w) ==
    /\ pc[w] = "prepare"
    /\ startState' = [startState EXCEPT ![w] = deriveStartState(@, m_LastState, clock)]
    /\ pc' = [pc EXCEPT ![w] = "publish"]
    /\ UNCHANGED <<m_LastState, clock, m_RibbonManager>>
    /\ startFrame

\* executive.cpp:296 and 340: the cycle leaves the state the controller
\* reported (a state one planning time ahead), or State() after an empty plan
planLoop_continuation(w) ==
    /\ pc[w] = "publish"
    /\ \E s \in {DefaultVehicleState}
                 \cup {VehicleState(x, 1, clock + planning_time_actual) : x \in Xs} :
          startState' = [startState EXCEPT ![w] = s]
    /\ pc' = [pc EXCEPT ![w] = "prepare"]
    /\ UNCHANGED <<m_LastState, clock, m_RibbonManager>>
    /\ startFrame

NextStart ==
    \/ Clock_tick
    \/ Vehicle_updateCovered
    \/ planLoop_startState(1)
    \/ planLoop_continuation(1)

SpecStart == InitStart /\ [][NextStart]_vars

(***************************************************************************)
(* The turning radii of the planner configuration in a build with radius   *)
(* shrinking enabled: the worker at the lines of planLoop that write them.  *)
(***************************************************************************)
\* executive.h: c_RadiusShrinkEnabled (the experimental shrinking switched
\* on) and c_RadiusShrinkAmount, the step, taken as the unit of length
c_RadiusShrinkEnabled == TRUE
c_RadiusShrinkAmount == 1

\* the radii given to setConfiguration, in steps
configuredTurningRadius == 8
configuredCoverageTurningRadius == 16

\* a loop that counts each step once: line 335 left out
onPlanShrink_once(shrink) == shrink

\* executive.cpp:335: a cycle that ends on the plan adds the step to
\* m_RadiusShrink once more
onPlanShrink(shrink) == shrink + c_RadiusShrinkAmount

InitShrink ==
    /\ InitData
    /\ m_UseGaussianDynamicObstacles = TRUE
    /\ m_PlannerState = "Running"
    /\ m_PlannerStateMutex = "free"
    /\ m_PlanningFuture = 1
    /\ joining = 0
    /\ pc = [w \in Workers |-> IF w = 1 THEN "prepare" ELSE "unborn"]
    /\ startState = [w \in Workers |-> DefaultState]
    /\ plan = [w \in Workers |-> NoPlan]
    /\ lastPlanAchievable = [w \in Workers |-> FALSE]
    /\ failureCount = [w \in Workers |-> 0]
    /\ m_WhichPlanner = "BitStar"
    /\ timeHorizon = Seconds(60)
    /\ timeMinimum = Seconds(15)
    /\ m_RibbonManager = 1
    /\ cycle = [w \in Workers |-> NewCycle]
    /\ backoff = NoBackoff
    /\ dp = NoPlan
    /\ call = NoCall
    /\ InitVehicle
    /\ turningRadius = configuredTurningRadius
    /\ coverageTurningRadius = configuredCoverageTurningRadius
    /\ m_RadiusShrink = 0
    /\ heuristic = 1
    /\ InitTest
    /\ cancelCalls = {}

\* what the steps of this part leave alone
shrinkFrame ==
    UNCHANGED <<m_PlannerState, m_PlannerStateMutex, m_PlanningFuture, joining, startState,
                plan, m_WhichPlanner, timeMinimum, m_RibbonManager, cycle, backoff, dp, call,
                shareVars, m_LastState, clock, heuristic, m_Preempted, m_ActionDone, goal,
                display, cancelCalls>>

\* executive.cpp:169-176: the radii are reduced by the step at each cycle
planLoop_shrink(w) ==
    /\ pc[w] = "prepare"
    /\ m_RadiusShrink <= MaxShrink
    /\ turningRadius <= configuredTurningRadius + MaxShrink
    /\ IF c_RadiusShrinkEnabled
       THEN /\ turningRadius' = turningRadius - c_RadiusShrinkAmount
            /\ coverageTurningRadius' = coverageTurningRadius - c_RadiusShrinkAmount
            /\ m_RadiusShrink' = m_RadiusShrink + c_RadiusShrinkAmount
       ELSE UNCHANGED <<turningRadius, coverageTurningRadius, m_RadiusShrink>>
    /\ pc' = [pc EXCEPT ![w] = "publish"]
    /\ UNCHANGED <<lastPlanAchievable, failureCount, timeHorizon>>
    /\ shrinkFrame

\* executive.cpp:291-353: the end of the cycle.  The controller deviated: the
\* radii are put back by m_RadiusShrink (lines 321-331); it is on the plan:
\* line 335; the plan is empty: the failure is counted (lines 339-352)
planLoop_radiusAtEnd(w) ==
    /\ pc[w] = "publish"
    /\ \E outcome \in {"empty", "deviated", "onPlan"} :
          IF outcome = "empty"
          THEN LET b == backOff(failureCount[w], timeHorizon, timeMinimum)
               IN  /\ failureCount[w] < MaxEmptyRun
                   /\ failureCount' = [failureCount EXCEPT ![w] = b.failureCount]
                   /\ timeHorizon' = b.timeHorizon
                   /\ UNCHANGED <<turningRadius, coverageTurningRadius, m_RadiusShrink,
                                  lastPlanAchievable>>
          ELSE /\ failureCount' = [failureCount EXCEPT ![w] = 0]
               /\ lastPlanAchievable' = [lastPlanAchievable EXCEPT ![w] = outcome = "onPlan"]
               /\ UNCHANGED timeHorizon
               /\ IF outcome = "deviated"
                  THEN IF c_RadiusShrinkEnabled
                       THEN /\ turningRadius' = turningRadius + m_RadiusShrink
                            /\ coverageTurningRadius' = coverageTurningRadius + m_RadiusShrink
                            /\ m_RadiusShrink' = 0
                       ELSE UNCHANGED <<turningRadius, coverageTurningRadius, m_RadiusShrink>>
                  ELSE /\ m_RadiusShrink' = onPlanShrink(m_RadiusShrink)
                       /\ UNCHANGED <<turningRadius, coverageTurningRadius>>
    /\ pc' = [pc EXCEPT ![w] = "prepare"]
    /\ shrinkFrame

NextShrink ==
    \/ planLoop_shrink(1)
    \/ planLoop_radiusAtEnd(1)

SpecShrink == InitShrink /\ [][NextShrink]_vars

(***************************************************************************)
(* The Executive with an observer of the cancelPlanner calls: cancelCalls   *)
(* collects the workers that were launched and had not returned when a      *)
(* cancelPlanner call ran.                                                  *)
(***************************************************************************)
\* the workers that have been launched and have not returned
Alive == {w \in Workers : pc[w] \notin {"unborn"} \cup Finished}

InitCancel ==
    /\ Init
    /\ m_WhichPlanner = "PotentialField"

\* a step of the program, with what the observer has seen after it
Observed(A, calls) ==
    /\ A
    /\ cancelCalls' = calls
    /\ UNCHANGED <<backoff, dp, call, shareVars, m_LastState, clock, turningRadius,
                   coverageTurningRadius, m_RadiusShrink, heuristic, m_Preempted,
                   m_ActionDone, goal, display>>

NextCancel ==
    \/ Observed(startPlanner, cancelCalls)
    \/ Observed(startPlanner_join, cancelCalls)
    \/ Observed(cancelPlanner, cancelCalls \cup Alive)
    \/ Observed(addRibbon, cancelCalls)
    \/ Observed(updateCovered, cancelCalls)
    \/ \E w \in Workers : Observed(planLoop(w), cancelCalls)

\* the scheduler runs every worker thread that can take a step, and
\* startPlanner returns once the worker it waits for has finished
SpecCancel ==
    /\ InitCancel
    /\ [][NextCancel]_vars
    /\ \A w \in Workers : WF_vars(Observed(planLoop(w), cancelCalls))
    /\ WF_vars(Observed(startPlanner_join, cancelCalls))

(***************************************************************************)
(* The configuration of the Executive taken on its own: setConfiguration,  *)
(* clearRibbons and addRibbon called in any order.  The heuristic kinds    *)
(* are numbered as in the switch of setConfiguration.                      *)
(***************************************************************************)
HeuristicKinds == 0..4
TspPointRobotNoSplitKRibbons == 1

\* the values setConfiguration is called with
HeuristicArguments == -1..5
RadiusArguments == {configuredTurningRadius, configuredTurningRadius + 1}

\* a clearRibbons that carries the heuristic over to the new manager
heuristicAfterClear_kept(kind) == kind

\* executive.cpp:487: the heuristic of the RibbonManager that clearRibbons
\* constructs
heuristicAfterClear(kind) == TspPointRobotNoSplitKRibbons

\* executive.cpp:501-509: the switch on the heuristic argument
heuristicAfterSet(kind, argument) == IF argument \in HeuristicKinds THEN argument ELSE kind

InitConfig ==
    /\ InitData
    /\ m_UseGaussianDynamicObstacles = TRUE
    /\ m_PlannerState = "Inactive"
    /\ m_PlannerStateMutex = "free"
    /\ m_PlanningFuture = 0
    /\ joining = 0
    /\ pc = [w \in Workers |-> "unborn"]
    /\ startState = [w \in Workers |-> DefaultState]
    /\ plan = [w \in Workers |-> NoPlan]
    /\ lastPlanAchievable = [w \in Workers |-> FALSE]
    /\ failureCount = [w \in Workers |-> 0]
    /\ m_WhichPlanner = "PotentialField"
    /\ timeHorizon \in ConfigHorizons
    /\ timeMinimum \in ConfigMinimums
    /\ m_RibbonManager = 0
    /\ cycle = [w \in Workers |-> NewCycle]
    /\ backoff = NoBackoff
    /\ dp = NoPlan
    /\ call = NoCall
    /\ InitVehicle
    /\ turningRadius = configuredTurningRadius
    /\ coverageTurningRadius = configuredCoverageTurningRadius
    /\ m_RadiusShrink = 0
    /\ heuristic \in HeuristicKinds
    /\ InitTest
    /\ cancelCalls = {}

\* what the calls of this part leave alone
configFrame ==
    UNCHANGED <<m_PlannerState, m_PlannerStateMutex, m_PlanningFuture, joining, pc,
                startState, plan, lastPlanAchievable, failureCount, cycle, backoff, dp,
                mutex, at, lock1, m_NewMap, map, mapsPosted, installed,
                m_GaussianDynamicObstaclesManager, m_BinaryDynamicObstaclesManager, handed,
                obstacle, projected, m_LastState, clock, m_RadiusShrink, m_Preempted,
                m_ActionDone, goal, display, cancelCalls>>

\* Executive::setConfiguration(turningRadius, coverageTurningRadius, ...,
\* heuristic, timeHorizon, timeMinimum, ..., useGaussianDynamicObstacles, ...,
\* whichPlanner)
Executive_setConfiguration ==
    /\ \E radius \in RadiusArguments, kind \in HeuristicArguments, horizon \in ConfigHorizons,
          minimum \in ConfigMinimums, gaussian \in BOOLEAN, which \in WhichPlanner :
          LET settings == [turningRadius |-> radius,
                           coverageTurningRadius |-> radius + configuredTurningRadius,
                           timeHorizon |-> horizon, timeMinimum |-> minimum,
                           useGaussianDynamicObstacles |-> gaussian, whichPlanner |-> which]
          IN  /\ turningRadius' = settings.turningRadius
              /\ coverageTurningRadius' = settings.coverageTurningRadius
              /\ heuristic' = heuristicAfterSet(heuristic, kind)
              /\ timeHorizon' = settings.timeHorizon
              /\ timeMinimum' = settings.timeMinimum
              /\ m_UseGaussianDynamicObstacles' = settings.useGaussianDynamicObstacles
              /\ m_WhichPlanner' = settings.whichPlanner
              /\ call' = [NoCall EXCEPT !.op = "setConfiguration", !.num = kind,
                                        !.what = settings]
    /\ UNCHANGED m_RibbonManager
    /\ configFrame

\* Executive::clearRibbons: m_RibbonManager = RibbonManager(
\* TspPointRobotNoSplitKRibbons, m_PlannerConfig.turningRadius(), 2)
Executive_clearRibbons ==
    /\ m_RibbonManager' = 0
    /\ heuristic' = heuristicAfterClear(heuristic)
    /\ call' = [NoCall EXCEPT !.op = "clearRibbons"]
    /\ UNCHANGED <<turningRadius, coverageTurningRadius, timeHorizon, timeMinimum,
                   m_UseGaussianDynamicObstacles, m_WhichPlanner>>
    /\ configFrame

\* Executive::addRibbon
Executive_addRibbon ==
    /\ m_RibbonManager < MaxRibbons
    /\ m_RibbonManager' = m_RibbonManager + 1
    /\ call' = [NoCall EXCEPT !.op = "addRibbon"]
    /\ UNCHANGED <<heuristic, turningRadius, coverageTurningRadius, timeHorizon, timeMinimum,
                   m_UseGaussianDynamicObstacles, m_WhichPlanner>>
    /\ configFrame

NextConfig ==
    \/ Executive_setConfiguration
    \/ Executive_clearRibbons
    \/ Executive_addRibbon

SpecConfig == InitConfig /\ [][NextConfig]_vars

(***************************************************************************)
(* The controller test node (controller_test_node.cpp).  The callbacks run *)
(* on the thread of ros::spin(), one at a time; goalCallback launches the   *)
(* display thread with std::async and keeps the future in a local, whose    *)
(* destructor waits for that thread before goalCallback returns.            *)
(***************************************************************************)
\* the thread of ros::spin() is inside goalCallback
Spinning == display \in {"loop", "afterLoop"}

testFrame ==
    UNCHANGED <<m_PlannerState, m_PlannerStateMutex, m_PlanningFuture, joining, pc,
                startState, plan, lastPlanAchievable, failureCount, m_WhichPlanner,
                timeHorizon, timeMinimum, m_RibbonManager, cycle, backoff, dp, call,
                shareVars, m_LastState, turningRadius, coverageTurningRadius,
                m_RadiusShrink, heuristic, cancelCalls>>

\* the survey lines of a goal whose plan ends by MaxClock; every line takes
\* one unit of time (wrapper.length() / c_MaxSpeed)
GoalLines == {0} \cup 1..(MaxClock - 1 - clock)

\* controller_test_node.cpp:44-67: the plan of a goal starts at getTime() and
\* has one segment per survey line, each starting where the last one ended
planSpan(time, lines) ==
    IF lines = 0 THEN [from |-> 0, until |-> -1]
    ELSE [from |-> time, until |-> time + lines]

InitTestNode ==
    /\ InitData
    /\ m_UseGaussianDynamicObstacles = TRUE
    /\ m_PlannerState = "Inactive"
    /\ m_PlannerStateMutex = "free"
    /\ m_PlanningFuture = 0
    /\ joining = 0
    /\ pc = [w \in Workers |-> "unborn"]
    /\ startState = [w \in Workers |-> DefaultState]
    /\ plan = [w \in Workers |-> NoPlan]
    /\ lastPlanAchievable = [w \in Workers |-> FALSE]
    /\ failureCount = [w \in Workers |-> 0]
    /\ m_WhichPlanner = "BitStar"
    /\ timeHorizon = Seconds(60)
    /\ timeMinimum = Seconds(15)
    /\ m_RibbonManager = 0
    /\ cycle = [w \in Workers |-> NewCycle]
    /\ backoff = NoBackoff
    /\ dp = NoPlan
    /\ call = NoCall
    /\ InitUnits

\* controller_test_node.cpp:27-79: goalCallback clears m_Preempted, accepts
\* the goal, publishes the plan and launches the display thread
ControllerTest_goalCallback ==
    /\ ~Spinning
    /\ goal.number < MaxGoals
    /\ m_Preempted' = FALSE
    /\ \E lines \in GoalLines :
          LET span == planSpan(clock, lines)
          IN  goal' = [NoGoal EXCEPT !.number = goal.number + 1, !.status = "active",
                                     !.from = span.from, !.until = span.until]
    /\ display' = "loop"
    /\ UNCHANGED <<m_ActionDone, clock>>
    /\ testFrame

\* controller_test_node.cpp:85-93: one test of the loop condition on the
\* time read last and, when the plan contains it, one pass of the body, which
\* sleeps for a second and reads the time again
ControllerTest_displayLoop ==
    /\ display = "loop"
    /\ IF goal.from <= clock /\ clock <= goal.until
       THEN /\ clock' = clock + 1
            /\ display' = IF m_Preempted THEN "afterLoop" ELSE "loop"
       ELSE /\ clock' = clock
            /\ display' = "afterLoop"
    /\ UNCHANGED <<m_Preempted, m_ActionDone, goal>>
    /\ testFrame

\* controller_test_node.cpp:94-98: after the loop
afterDisplay(preempted, done) ==
    IF preempted THEN [m_Preempted |-> FALSE, m_ActionDone |-> done]
    ELSE [m_Preempted |-> preempted, m_ActionDone |-> TRUE]

\* controller_test_node.cpp:94-101: the display thread ends and goalCallback
\* returns
ControllerTest_displayEnd ==
    /\ display = "afterLoop"
    /\ LET after == afterDisplay(m_Preempted, m_ActionDone)
       IN  /\ m_Preempted' = after.m_Preempted
           /\ m_ActionDone' = after.m_ActionDone
    /\ display' = "done"
    /\ UNCHANGED <<goal, clock>>
    /\ testFrame

\* controller_test_node.cpp:103-112: preemptCallback, called for a cancel
\* request on the goal that is active
ControllerTest_preemptCallback ==
    /\ ~Spinning
    /\ goal.status = "active"
    /\ goal' = [goal EXCEPT !.status = "preempted", !.preempted = TRUE]
    /\ m_Preempted' = TRUE
    /\ UNCHANGED <<m_ActionDone, display, clock>>
    /\ testFrame

\* controller_test_node.cpp:114-117 and 136-144: odometryCallback calls
\* allDone() when m_ActionDone is set: m_ActionDone = false, setSucceeded
ControllerTest_odometryCallback ==
    /\ ~Spinning
    /\ IF m_ActionDone
       THEN /\ m_ActionDone' = FALSE
            /\ goal' = [goal EXCEPT
                           !.status = IF goal.status = "active" THEN "succeeded" ELSE @,
                           !.succeeded = @ + 1,
                           !.afterPreempt = @ \/ goal.preempted]
       ELSE UNCHANGED <<m_ActionDone, goal>>
    /\ UNCHANGED <<m_Preempted, display, clock>>
    /\ testFrame

NextTestNode ==
    \/ ControllerTest_goalCallback
    \/ ControllerTest_displayLoop
    \/ ControllerTest_displayEnd
    \/ ControllerTest_preemptCallback
    \/ ControllerTest_odometryCallback

SpecTestNode == InitTestNode /\ [][NextTestNode]_vars

TypeOK ==
    /\ m_PlannerState \in PlannerState
    /\ m_PlannerStateMutex \in {"free", "startPlanner"}
    /\ m_PlanningFuture \in 0..MaxWorkers
    /\ joining \in 0..MaxWorkers
    /\ \A w \in Workers :
          /\ startState[w] \in States
          /\ plan[w] \in Plans
          /\ failureCount[w] \in 0..MaxEmptyRun
    /\ timeHorizon >= timeMinimum
    /\ m_RibbonManager \in 0..MaxRibbons

(***************************************************************************)
(* The state machine of m_PlannerState.                                    *)
(***************************************************************************)
Edge(from, to) == m_PlannerState = from /\ m_PlannerState' = to

\* a worker enters the loop / stores Inactive on its way out
WorkerEnters == \E w \in Workers : pc[w] \in {"init", "initWait"} /\ pc'[w] = "top"
WorkerExits == \E w \in Workers : pc[w] = "exit" /\ pc'[w] = "done"

\* C1 as stated: m_PlannerState changes only along Inactive -> Running,
\* Running -> Cancelled and Cancelled -> Inactive; the worker never takes it
\* from Running straight to Inactive.
C1_AsStated ==
    [][\/ m_PlannerState' = m_PlannerState
       \/ Edge("Inactive", "Running")
       \/ Edge("Running", "Cancelled")
       \/ Edge("Cancelled", "Inactive")]_vars

\* C1 amended: m_PlannerState changes only along Inactive -> Running (a worker
\* entering the loop), Running -> Cancelled (cancelPlanner, called by the
\* control thread or by the worker's exception handlers), Cancelled ->
\* Inactive and Running -> Inactive (both the worker's last step: it stores
\* Inactive whatever made it leave the loop, the ribbons being done included).
C1_StateMachine ==
    [][\/ m_PlannerState' = m_PlannerState
       \/ Edge("Inactive", "Running") /\ WorkerEnters
       \/ Edge("Running", "Cancelled") /\ ~WorkerEnters /\ ~WorkerExits
       \/ Edge("Cancelled", "Inactive") /\ WorkerExits
       \/ Edge("Running", "Inactive") /\ WorkerExits]_vars

\* a worker that left the loop without a cancellation is about to store
\* Inactive over Running
C1_Witness ==
    /\ m_PlannerState = "Running"
    /\ m_PlannerStateMutex = "free"
    /\ \E w \in Workers : pc[w] = "exit"

\* C3: startPlanner called while the state is Running launches no worker and
\* leaves m_PlannerState, the future and every worker as they are.
C3_DoubleStartNoOp ==
    [][m_PlannerState = "Running" =>
          /\ \A w \in Workers : pc[w] = "unborn" => pc'[w] = "unborn"
          /\ startPlanner =>
                UNCHANGED <<m_PlannerState, m_PlanningFuture, joining, pc, localVars, cycle>>]_vars

\* startPlanner can be called (the control thread is idle, the mutex free)
\* while a worker is in its loop in state Running and a launch is possible
C3_Witness ==
    /\ m_PlannerState = "Running"
    /\ ENABLED startPlanner
    /\ \E w \in Workers : pc[w] \in InLoop
    /\ \E w \in Workers : pc[w] = "unborn"

(***************************************************************************)
(* Cancellation and restart.                                               *)
(***************************************************************************)
\* C2: once cancelPlanner has moved Running to Cancelled, the worker
\* eventually leaves its loop and stores Inactive (every call the worker
\* makes returns; a worker ended by an exception of the task-level stats
\* publication is set aside).
C2_CancelReachesInactive ==
    [](m_PlannerState = "Cancelled" =>
          <>(m_PlannerState = "Inactive" \/ \E w \in Workers : pc[w] = "crashed"))

\* C4: a worker launched while the state is Cancelled gets to its timed wait
\* and comes out of it, entering the loop or refusing the start.
C4_StartWhileCancelledDecides ==
    \A w \in Workers :
        [](pc[w] = "init" /\ m_PlannerState = "Cancelled" =>
              <>(pc[w] \in {"top", "refused"}))

(***************************************************************************)
(* The planning cycle.                                                     *)
(***************************************************************************)
\* worker w takes the step that ends a cycle and goes back to the top
EndsCycle(w) == pc[w] = "publish" /\ pc'[w] = "top"

\* C5: with BitStar selected, a cycle whose retained plan is non-empty at the
\* planning step does not call planner.plan and keeps that plan; planner.plan
\* is entered only with an empty retained plan.
C5_BitStarPlansOnce ==
    [][\A w \in Workers :
          pc[w] = "prepare" /\ pc'[w] \in {"planning", "publish"} /\ m_WhichPlanner = "BitStar" =>
             IF empty(plan'[w])
             THEN pc'[w] = "planning" /\ cycle'[w].calledPlan
             ELSE pc'[w] = "publish" /\ ~cycle'[w].calledPlan]_vars

\* a BIT* cycle has skipped planner.plan and still holds its plan
C5_Witness ==
    \E w \in Workers :
        /\ pc[w] = "publish"
        /\ m_WhichPlanner = "BitStar"
        /\ ~cycle[w].calledPlan
        /\ ~empty(plan[w])

\* C8: when the state publishPlan returned is not co-located with the plan
\* sampled at its time, the plan is dropped and lastPlanAchievable is false,
\* so that the next cycle enters planner.plan with an empty previous plan and
\* publishes lastPlanAchievable false; when it is co-located the plan is
\* kept as it is and lastPlanAchievable is true.
C8_Deviation ==
    [][\A w \in Workers :
          /\ EndsCycle(w) /\ ~empty(plan[w]) =>
                IF cycle'[w].deviated
                THEN plan'[w] = NoPlan /\ ~lastPlanAchievable'[w]
                ELSE plan'[w] = plan[w] /\ lastPlanAchievable'[w]
          /\ cycle[w].deviated /\ pc[w] = "prepare" /\ pc'[w] # "prepare" =>
                pc'[w] = "planning" /\ empty(plan'[w])
          /\ cycle[w].deviated /\ pc'[w] \in {"planning", "publish"} =>
                ~lastPlanAchievable'[w]]_vars

\* the cycle after a deviation is in planner.plan
C8_Witness ==
    \E w \in Workers :
        /\ pc[w] = "planning"
        /\ cycle[w].deviated
        /\ cycle[w].calledPlan
        /\ empty(plan[w])

\* C9: a std::exception from planner.plan leaves no plan and m_PlannerState
\* as it is, and the cycle ends as one with an empty plan: no publishPlan
\* call, the failure counted (the count going back to 0 when that halves the
\* time horizon), the start state the default State(), back to the top.
C9_PlannerException ==
    [][\A w \in Workers :
          /\ pc[w] = "planning" /\ cycle'[w].planThrew =>
                /\ pc'[w] = "publish"
                /\ empty(plan'[w])
                /\ m_PlannerState' = m_PlannerState
          /\ pc[w] = "publish" /\ pc'[w] # "publish" /\ cycle[w].planThrew =>
                /\ pc'[w] = "top"
                /\ cycle'[w].rpc = "none"
                /\ startState'[w] = DefaultState
                /\ m_PlannerState' = m_PlannerState
                /\ \/ failureCount'[w] = failureCount[w] + 1
                   \/ /\ failureCount[w] + 1 > 2
                      /\ failureCount'[w] = 0
                      /\ timeHorizon' = timeHorizon \div 2]_vars

\* a cycle in which planner.plan threw has ended and the loop goes on
C9_Witness ==
    \E w \in Workers :
        /\ pc[w] = "top"
        /\ cycle[w].planThrew
        /\ failureCount[w] > 0
        /\ m_PlannerState = "Running"

\* C10: after a failed publishPlan call (an exception, or the default State
\* of a failed service call) m_PlannerState is Cancelled and the worker goes
\* to its exit without another planner.plan or publishPlan call.
C10_RpcFailureCancels ==
    [][\A w \in Workers :
          cycle'[w].rpc = "failed" =>
             /\ m_PlannerState' = "Cancelled"
             /\ pc'[w] \in {"top", "taskStats", "exit"}]_vars

\* publishPlan threw a std::exception and the worker is back at the top
C10_Witness ==
    \E w \in Workers :
        /\ pc[w] = "top"
        /\ cycle[w].rpc = "failed"
        /\ m_PlannerState = "Cancelled"

(***************************************************************************)
(* The back-off of the time horizon (specification SpecLoop).              *)
(***************************************************************************)
\* C6 as stated: every cycle that ends with more than 2 failures counted
\* leaves timeHorizon >= timeMinimum and the failure counter reset.
C6_AsStated ==
    [][EndsCycle(1) /\ empty(plan[1]) /\ failureCount[1] + 1 > 2 =>
          timeHorizon' >= timeMinimum /\ failureCount'[1] = 0]_vars

\* C6 amended: timeHorizon changes only at the end of an empty-plan cycle
\* that is at least the third in a row and stays >= timeMinimum; a cycle with
\* a plan resets the counter; the third failure counted halves timeHorizon
\* and resets the counter when the half is not below timeMinimum, and
\* otherwise stores timeMinimum and keeps the counter, so that every further
\* empty-plan cycle does the same again.
C6_BackOff ==
    [][/\ timeHorizon' # timeHorizon =>
             EndsCycle(1) /\ empty(plan[1]) /\ backoff.n + 1 > 2 /\ failureCount[1] + 1 > 2
       /\ timeHorizon' >= timeMinimum
       /\ EndsCycle(1) /\ ~empty(plan[1]) => failureCount'[1] = 0
       /\ EndsCycle(1) /\ empty(plan[1]) =>
             IF failureCount[1] + 1 <= 2
             THEN failureCount'[1] = failureCount[1] + 1
             ELSE IF timeHorizon \div 2 >= timeMinimum
             THEN failureCount'[1] = 0 /\ timeHorizon' = timeHorizon \div 2
             ELSE failureCount'[1] = failureCount[1] + 1 /\ timeHorizon' = timeMinimum]_vars

\* the counter has passed 2: the time horizon was clamped, not halved
C6_Witness ==
    /\ pc[1] = "top"
    /\ failureCount[1] > 3
    /\ timeHorizon = timeMinimum

\* the run of empty-plan cycles C7 is about
FromSixty == backoff.from = Seconds(60) /\ timeMinimum = Seconds(15)

\* C7 as stated: from 60 s and a minimum of 15 s, timeHorizon is 30 s after
\* the third empty-plan cycle in a row, 20 s after the fifth, 15 s after the
\* seventh.
C7_AsStated ==
    FromSixty =>
        /\ backoff.n = 3 => timeHorizon = Seconds(30)
        /\ backoff.n = 5 => timeHorizon = Seconds(20)
        /\ backoff.n = 7 => timeHorizon = Seconds(15)

\* C7 amended: from 60 s and a minimum of 15 s, timeHorizon is 60 s until the
\* third empty-plan cycle in a row, 30 s after the third, fourth and fifth,
\* and 15 s after the sixth and seventh.
C7_Horizons ==
    FromSixty =>
        /\ backoff.n \in 0..2 => timeHorizon = Seconds(60)
        /\ backoff.n \in 3..5 => timeHorizon = Seconds(30)
        /\ backoff.n \in 6..7 => timeHorizon = Seconds(15)

\* seven empty-plan cycles in a row from 60 s
C7_Witness == FromSixty /\ backoff.n = 7 /\ timeHorizon = Seconds(15)

(***************************************************************************)
(* Task-level statistics.                                                  *)
(***************************************************************************)
\* C11: a worker that entered the loop publishes the task-level stats exactly
\* once, after its last cycle and before it stores Inactive, whatever ended
\* the loop (a break on cancellation or ribbons done, an exception caught by
\* the handlers of planLoop): it leaves the loop only for the stats step,
\* reaches the store of Inactive only from the stats step, and never gets
\* back to the stats step.  (A worker ended inside changeIntoSuffix, where
\* the behaviour is undefined, publishes nothing.)
C11_TaskStatsOnce ==
    [][\A w \in Workers :
          /\ pc[w] \in InLoop /\ pc'[w] \notin InLoop =>
                pc'[w] = "taskStats" \/ (pc[w] = "prepare" /\ pc'[w] = "crashed")
          /\ pc'[w] = "taskStats" => pc[w] \in InLoop \cup {"taskStats"}
          /\ pc'[w] = "exit" => pc[w] \in {"taskStats", "exit"}
          /\ pc'[w] = "done" => pc[w] \in {"exit", "done"}
          /\ pc[w] \in {"exit", "done"} => pc'[w] \in {"exit", "done"}
          /\ m_PlannerState' = "Inactive" /\ m_PlannerState # "Inactive" =>
                \E v \in Workers : pc[v] = "exit" /\ pc'[v] = "done"]_vars

\* a worker has published its stats after an exception ended its loop (the
\* handler has cancelled the planner) and is about to store Inactive
C11_Witness ==
    \E w \in Workers :
        /\ pc[w] = "exit"
        /\ cycle[w].rpc = "failed"
        /\ m_PlannerState = "Cancelled"

(***************************************************************************)
(* DubinsPlan (specification SpecPlan).                                    *)
(***************************************************************************)
\* the segments of p whose closed interval [startTime, endTime] holds t
Holding(p, t) == {i \in 1..Len(p) : p[i].startTime <= t /\ t <= p[i].endTime}
First(S) == CHOOSE i \in S : \A j \in S : i <= j

\* C12: sample on a state with time t, when some segment contains t, returns
\* with the state filled from the first such segment in plan order and its
\* time still t; when no segment contains t it throws (a std::runtime_error,
\* "outside DubinsPlan bounds" on a plan that has segments); the plan is
\* unchanged either way.
C12_Sample ==
    call.op = "sample" =>
        LET p == call.before
            in == Holding(p, call.t)
        IN  /\ dp = p
            /\ IF in # {}
               THEN /\ call.outcome = "returned"
                    /\ call.state = [time |-> call.t, x |-> p[First(in)].x]
               ELSE /\ call.outcome = "threw"
                    /\ call.what # ""
                    /\ Len(p) > 0 => call.what = "outside DubinsPlan bounds"

\* sample has thrown for a time in a gap between two segments
C12_Witness ==
    /\ call.op = "sample"
    /\ call.outcome = "threw"
    /\ Len(call.before) > 1
    /\ call.before[1].endTime < call.t
    /\ call.t < call.before[Len(call.before)].startTime

\* C13 as stated: in a plan with s_i.endTime <= s_{i+1}.startTime the segment
\* sample reads is the only one containing t.
C13_AsStated ==
    call.op = "sample" /\ call.outcome = "returned" =>
        Cardinality(Holding(call.before, call.t)) = 1

\* C13 amended: in a plan with s_i.endTime <= s_{i+1}.startTime, sample reads
\* the first segment containing t; any other segment containing t comes
\* later and only touches it at t (the one read ends at t, the other starts
\* at t), so the segment is unique when t is not a boundary two segments
\* share.
C13_FirstOfTouching ==
    call.op = "sample" /\ call.outcome = "returned" =>
        LET p == call.before
            in == Holding(p, call.t)
            i == First(in)
        IN  /\ call.state.x = p[i].x
            /\ \A j \in in \ {i} :
                  j > i /\ p[i].endTime = call.t /\ p[j].startTime = call.t
            /\ (\A k \in 1..(Len(p) - 1) : p[k].endTime < p[k + 1].startTime) =>
                  in = {i}

\* sample has read the earlier of two segments of positive length that meet
\* at t
C13_Witness ==
    /\ call.op = "sample"
    /\ call.outcome = "returned"
    /\ \E i \in 1..(Len(call.before) - 1) :
          /\ call.before[i].startTime < call.t
          /\ call.before[i].endTime = call.t
          /\ call.before[i + 1].startTime = call.t
          /\ call.before[i + 1].endTime > call.t
          /\ call.state.x = call.before[i].x

\* changeIntoSuffix(call.t) has returned from a plan that had segments
Cut == call.op = "changeIntoSuffix" /\ call.outcome = "returned" /\ Len(call.before) > 0

\* the segments of p that end before t
Past(p, t) == {i \in 1..Len(p) : p[i].endTime < t}

C15_AllPastReturnsEmpty ==
    /\ call.op = "changeIntoSuffix"
    /\ Len(call.before) > 0
    /\ \A i \in 1..Len(call.before) : call.before[i].endTime < call.t
    => call.outcome = "returned" /\ empty(dp) /\ ~call.ub

\* C16: changeIntoSuffix(getStartTime()) on a non-empty plan returns and
\* leaves the plan as it was.
C16_SuffixAtStart ==
    /\ call.op = "changeIntoSuffix"
    /\ Len(call.before) > 0
    /\ call.t = call.before[1].startTime
    => call.outcome = "returned" /\ ~call.ub /\ dp = call.before

\* changeIntoSuffix was called with the start time of a plan of several
\* segments whose first segment ends when it starts
C16_Witness ==
    /\ Cut
    /\ Len(call.before) > 1
    /\ call.t = call.before[1].startTime
    /\ call.t = call.before[1].endTime

\* C17: changeIntoSuffix(t1) called right after changeIntoSuffix(t0), t0 <= t1,
\* returns with the plan that changeIntoSuffix(t1) alone leaves, or throws
\* when that throws.
C17_AsStated ==
    [][/\ call.op = "changeIntoSuffix"
       /\ call.outcome # "crashed"
       /\ call'.op = "changeIntoSuffix"
       /\ call.t <= call'.t
       => LET alone == changeIntoSuffix(call.before, call'.t)
          IN  /\ (call'.outcome = "threw") = ~alone.ok
              /\ call'.outcome = "returned" => dp' = alone.plan]_vars

\* C17 where the first call leaves the plan defined (it does not run off the
\* end of the emptied plan): changeIntoSuffix(t1) after changeIntoSuffix(t0),
\* t0 <= t1, ends as changeIntoSuffix(t1) on the first plan does: the same
\* plan, the same exception (the plan had no segments), or the same run off
\* the end of the emptied plan.
C17_SuffixTwice ==
    [][/\ call.op = "changeIntoSuffix"
       /\ call.outcome # "crashed"
       /\ ~call.ub
       /\ call'.op = "changeIntoSuffix"
       /\ call.t <= call'.t
       => LET alone == changeIntoSuffix(call.before, call'.t)
          IN  /\ (call'.outcome = "threw") = ~alone.ok
              /\ call'.ub = alone.ub
              /\ ~alone.ub => dp' = alone.plan]_vars

\* a first changeIntoSuffix has left segments that a later one can drop in
\* part
C17_Witness ==
    /\ Cut
    /\ Len(dp) < Len(call.before)
    /\ Len(dp) > 1
    /\ dp[1].endTime < dp[2].endTime

\* C18: changeIntoSuffix(t0) leaves every retained segment as it was (start
\* time, end time, samples), so that the plan samples as before from t0 on
\* and a segment that straddles t0 still starts before t0; for segments
\* [0,10], [10,20], [20,30] and t0 = 15 the start times left are {10, 20},
\* sample(25) is what it was and sample(5) throws.
C18_NoRetiming ==
    Cut /\ ~call.ub =>
        LET p == call.before
            k == Len(p) - Len(dp)
            ex == <<Leg(0, 10, 1), Leg(10, 20, 2), Leg(20, 30, 3)>>
            r == changeIntoSuffix(ex, 15)
        IN  /\ k >= 0
            /\ \A i \in 1..Len(dp) : dp[i] = p[k + i]
            /\ \A t \in PlanTimes :
                  t >= call.t => sample(dp, State(0, t)) = sample(p, State(0, t))
            /\ r.ok /\ ~r.ub
            /\ {r.plan[i].startTime : i \in 1..Len(r.plan)} = {10, 20}
            /\ sample(ex, State(0, 25)).ok
            /\ sample(r.plan, State(0, 25)) = sample(ex, State(0, 25))
            /\ ~sample(r.plan, State(0, 5)).ok

\* the first segment left by changeIntoSuffix(t0) starts before t0
C18_Witness ==
    /\ Cut
    /\ 0 < Len(dp)
    /\ Len(dp) < Len(call.before)
    /\ dp[1].startTime < call.t
    /\ call.t < dp[1].endTime

\* C20: empty() holds exactly when the plan has no segments; getStartTime and
\* getEndTime return the first segment's start time and the last segment's
\* end time, and throw on a plan without segments; none changes the plan.
C20_Accessors ==
    /\ call.op \in {"empty", "getStartTime", "getEndTime"} => dp = call.before
    /\ call.op = "empty" =>
          call.outcome = "returned" /\ call.flag = (Len(call.before) = 0)
    /\ call.op = "getStartTime" =>
          IF Len(call.before) = 0 THEN call.outcome = "threw"
          ELSE call.outcome = "returned" /\ call.num = call.before[1].startTime
    /\ call.op = "getEndTime" =>
          IF Len(call.before) = 0 THEN call.outcome = "threw"
          ELSE call.outcome = "returned" /\ call.num = call.before[Len(call.before)].endTime

\* getEndTime has returned the end of the last of several segments
C20_Witness ==
    /\ call.op = "getEndTime"
    /\ call.outcome = "returned"
    /\ Len(call.before) > 1
    /\ call.num > call.before[1].endTime

(***************************************************************************)
(* The retained plan in the planning cycle (specification Spec).           *)
(***************************************************************************)
\* worker w goes through executive.cpp:167 with a plan and comes out with one
Reuses(w) ==
    /\ pc[w] = "prepare"
    /\ pc'[w] \in {"planning", "publish"}
    /\ ~empty(plan[w])
    /\ ~empty(plan'[w])

\* C19 as stated: after changeIntoSuffix(startState.time) the retained plan
\* starts no earlier than the start state.
C19_AsStated ==
    [][\A w \in Workers :
          Reuses(w) => getStartTime(plan'[w]) >= startState'[w].time]_vars

\* C19 amended: after changeIntoSuffix(startState.time) the retained plan is
\* the old one without the segments that ended before the start state: its
\* first segment ends no earlier than the start state, and may start before.
C19_RetainedPlan ==
    [][\A w \in Workers :
          Reuses(w) =>
             /\ plan'[w][1].endTime >= startState'[w].time
             /\ plan'[w] = SubSeq(plan[w], Len(plan[w]) - Len(plan'[w]) + 1, Len(plan[w]))
             /\ \A i \in 1..(Len(plan[w]) - Len(plan'[w])) :
                   plan[w][i].endTime < startState'[w].time]_vars

\* planner.plan is given a retained plan that starts before the start state
C19_Witness ==
    \E w \in Workers :
        /\ pc[w] = "planning"
        /\ ~empty(plan[w])
        /\ getStartTime(plan[w]) < startState[w].time
        /\ plan[w][1].endTime >= startState[w].time

(***************************************************************************)
(* The samples of a plan and its message.                                  *)
(***************************************************************************)
\* the plan has a time gap: a segment ends before the next one starts
HasGap(p) == \E i \in 1..(Len(p) - 1) : p[i].endTime < p[i + 1].startTime

\* getHalfSecondSamples has been called on the plan
Sampled == call.op = "getHalfSecondSamples"

\* C21 as stated: on a plan with a time gap getHalfSecondSamples fails with
\* the out-of-range error of sample().
C21_AsStated == Sampled /\ HasGap(call.before) => call.outcome = "threw"

\* C21 amended: getHalfSecondSamples leaves the plan as it is; on a plan
\* without segments it returns an empty list; else it visits the times
\* startTime + k*density (k = 0, 1, ...) that are before the plan's end time
\* (the end time itself is not sampled): when each of them lies in a segment
\* it returns the samples sample() gives at these times, in increasing time
\* order, and when one of them lies in a gap it fails with the error of
\* sample(); a gap that holds none of these times does not make it fail.
C21_Samples ==
    Sampled =>
        LET p == call.before
            start == getStartTime(p)
            times == {t \in PlanTimes : /\ start <= t
                                        /\ t < getEndTime(p)
                                        /\ \E k \in 0..MaxPlanT : t = start + k * planTimeDensity}
        IN  /\ dp = p
            /\ IF empty(p) THEN call.outcome = "returned" /\ call.samples = << >>
               ELSE IF \A t \in times : containsTime(p, t)
               THEN /\ call.outcome = "returned"
                    /\ Len(call.samples) = Cardinality(times)
                    /\ \A k \in 1..Len(call.samples) :
                          /\ call.samples[k].time = start + (k - 1) * planTimeDensity
                          /\ call.samples[k] = sample(p, State(0, call.samples[k].time)).state
                    /\ \A k \in 1..(Len(call.samples) - 1) :
                          call.samples[k].time < call.samples[k + 1].time
               ELSE /\ call.outcome = "threw"
                    /\ call.what = "outside DubinsPlan bounds"

\* getHalfSecondSamples has returned the samples of a plan with a gap that
\* holds none of the sampled times
C21_Witness ==
    /\ Sampled
    /\ HasGap(call.before)
    /\ call.outcome = "returned"
    /\ Len(call.samples) > 2

C29_TopOfCycle ==
    [][\A w \in Workers :
          /\ pc[w] = "top" /\ pc'[w] # "top" =>
                IF m_PlannerState = "Cancelled"
                THEN pc'[w] = "taskStats" /\ cycle'[w].allDone = 0
                ELSE IF m_RibbonManager = 0
                THEN /\ pc'[w] = "taskStats"
                     /\ cycle'[w].allDone = 1
                     /\ ~cycle'[w].calledPlan
                     /\ cycle'[w].rpc = cycle[w].rpc
                ELSE pc'[w] = "prepare" /\ cycle'[w].allDone = 0
          /\ cycle'[w].allDone > cycle[w].allDone =>
                pc[w] = "top" /\ cycle[w].allDone = 0]_vars

\* a worker has left the loop after allDone()
C29_Witness ==
    \E w \in Workers :
        pc[w] = "taskStats" /\ cycle[w].allDone = 1 /\ m_PlannerState = "Running"

\* C26: a plan returned by a planner.plan call during which cancelPlanner
\* took effect is not passed to publishPlan: the cycle ends without a call of
\* publishPlan.
C26_CancelledPlanDiscarded ==
    [][\A w \in Workers :
          pc[w] = "publish" /\ cycle[w].cancelledInPlan => cycle'[w].rpc = "none"]_vars

\* C25: a worker inside planner.plan keeps no call of the control thread
\* waiting: startPlanner is not blocked on it with m_PlannerStateMutex held.
C25_PlanningBlocksNoCall ==
    \A w \in Workers : pc[w] = "planning" => joining # w

(***************************************************************************)
(* The shared data (specification SpecShare).                              *)
(***************************************************************************)
\* the shared data a thread is reading ("r") or writing ("w") where it is
Accessing(t) ==
    LET where == at[t]
        manager == IF m_UseGaussianDynamicObstacles THEN "m_GaussianDynamicObstaclesManager"
                   ELSE "m_BinaryDynamicObstaclesManager"
    IN  IF t = "worker" THEN
            IF where \in {"inRibbonsDone", "inDisplay", "inCopyRibbons", "inTaskStats"}
            THEN {<<"m_RibbonManager", "r">>}
            ELSE IF where \in {"inPush", "inCoverBetween"} THEN {<<"m_LastState", "r">>}
            ELSE IF where = "inMap" THEN {<<"m_NewMap", "w">>}
            ELSE IF where = "inPenalty" THEN {<<manager, "r">>, <<"m_LastState", "r">>}
            ELSE IF where = "inCopyObstacles"
            THEN {<<"m_GaussianDynamicObstaclesManager", "r">>}
            ELSE {}
        ELSE IF t = "transport" THEN
            IF where \in {"inAddRibbon", "inCover", "inClearRibbons"}
            THEN {<<"m_RibbonManager", "w">>}
            ELSE IF where = "inLastState" THEN {<<"m_LastState", "w">>}
            ELSE IF where = "inBinaryUpdate" THEN {<<"m_BinaryDynamicObstaclesManager", "w">>}
            ELSE IF where = "inGaussianUpdate"
            THEN {<<"m_GaussianDynamicObstaclesManager", "w">>}
            ELSE IF where = "inSetMap" THEN {<<"m_NewMap", "w">>}
            ELSE {}
        ELSE IF where = "loading" THEN {<<"m_NewMap", "w">>} ELSE {}

\* executive.h: the mutex declared for each piece of shared data
MutexOf(resource) ==
    IF resource = "m_RibbonManager" THEN "m_RibbonManagerMutex"
    ELSE IF resource = "m_NewMap" THEN "m_MapMutex"
    ELSE IF resource = "m_GaussianDynamicObstaclesManager"
    THEN "m_GaussianDynamicObstaclesManagerMutex"
    ELSE "none"

\* thread t is at its access a under the mutex of the data
UnderLock(t, a) == MutexOf(a[1]) # "none" /\ mutex[MutexOf(a[1])] = t

\* two threads are at the same data and one of them writes it
Race ==
    \E t1 \in Threads, t2 \in Threads :
        \E a1 \in Accessing(t1), a2 \in Accessing(t2) :
            t1 # t2 /\ a1[1] = a2[1] /\ "w" \in {a1[2], a2[2]}

\* C24: every read or write of the ribbon manager, of an obstacle manager,
\* of the map slot and of the last vehicle state is made under the lock of
\* that data, and no two threads are at one of them at once with one of the
\* two writing.
C24_AllUnderLock ==
    /\ \A t \in Threads : \A a \in Accessing(t) : UnderLock(t, a)
    /\ ~Race

\* what the planner can see through what it was given: the copy of the
\* ribbons, the copy of the obstacles, and the obstacles of the manager the
\* config refers to
Visible == <<handed.ribbons, handed.obstacles, obstaclesOf(handed.manager)>>

\* C23: while planner.plan runs, what the planner sees through what it was
\* given does not change, whatever the transport thread posts.
C23_PlannerSeesSnapshots ==
    [][at["worker"] = "plan" /\ at'["worker"] = "plan" => Visible' = Visible]_vars

\* the worker inside planner.plan holds none of the data mutexes
C25_NoLockWhilePlanning ==
    at["worker"] = "plan" => \A m \in Mutexes : mutex[m] # "worker"

\* C27: a load that fails in the thread of refreshMap leaves m_NewMap as it
\* was, so that a map posted before and not yet taken by the worker stays.
C27_FailedLoadKeepsSlot ==
    [][at["loader"] = "loading" /\ at'["loader"] = "failed" => m_NewMap' = m_NewMap]_vars

\* no map appears twice in a sequence of maps
NoRepeat(maps) ==
    \A i \in 1..Len(maps) : \A j \in 1..Len(maps) : i # j => maps[i] # maps[j]

\* C28: the worker's try_lock on m_MapMutex.  When another thread holds the
\* mutex the worker goes on at once, with the map of the config and the slot
\* as they are; when it gets the mutex, a posted map becomes the map of the
\* config, an empty slot leaves the map of the config alone, and the slot is
\* emptied.  No map is installed twice, the config never loses its map, and
\* nothing else changes the map of the config.
C28_MapTryLock ==
    [][/\ at["worker"] = "tryMap" /\ at'["worker"] # "tryMap" =>
             IF mutex["m_MapMutex"] = "free"
             THEN at'["worker"] = "inMap" /\ mutex'["m_MapMutex"] = "worker" /\ lock1'
             ELSE /\ at'["worker"] = "penalty"
                  /\ ~lock1'
                  /\ UNCHANGED <<mutex, map, m_NewMap, installed>>
       /\ at["worker"] = "inMap" /\ at'["worker"] # "inMap" =>
             /\ m_NewMap' = 0
             /\ map' = IF m_NewMap # 0 THEN m_NewMap ELSE map
             /\ map' # 0
             /\ installed' = IF m_NewMap # 0 THEN Append(installed, m_NewMap) ELSE installed
             /\ NoRepeat(installed')
             /\ mutex'["m_MapMutex"] = "free"
       /\ map' # map \/ installed' # installed => at["worker"] = "inMap"]_vars

\* the worker has installed a posted map in one cycle, and in this one has
\* gone past the map block while the thread of refreshMap holds the mutex
C28_Witness ==
    /\ installed # << >>
    /\ at["worker"] = "penalty"
    /\ ~lock1
    /\ mutex["m_MapMutex"] = "loader"

(***************************************************************************)
(* Projection of a Gaussian obstacle (specification SpecObstacle).         *)
(***************************************************************************)
\* C30: project(t') moves X, Y and the mean by Speed * (t' - Time) along
\* (cos Yaw, sin Yaw) and leaves the covariance, Speed and Yaw as they were;
\* the density has its peak at the mean.  The obstacle made at (50, 0) with
\* speed 2 heading along +x, projected 10 s ahead, has its mean, and the
\* peak of its density, at (70, 0).
C30_Project ==
    projected.desiredTime # -1 =>
        LET o == projected.before
            d == o.Speed * (projected.desiredTime - o.Time)
            east == Obstacle(50, 0, 1, 2, 0)
            later == project(east, 10)
        IN  /\ obstacle.X = o.X + d * cos(o.Yaw)
            /\ obstacle.Y = o.Y + d * sin(o.Yaw)
            /\ obstacle.mean = <<o.mean[1] + d * cos(o.Yaw), o.mean[2] + d * sin(o.Yaw)>>
            /\ obstacle.covariance = o.covariance
            /\ obstacle.Speed = o.Speed
            /\ obstacle.Yaw = o.Yaw
            /\ \A x \in Coords, y \in Coords :
                  <<x, y>> # obstacle.mean =>
                      quadform(obstacle, <<x, y>>) > quadform(obstacle, obstacle.mean)
            /\ east.Yaw = 0
            /\ later.mean = <<70, 0>>
            /\ later.X = 70 /\ later.Y = 0
            /\ \A x \in 50..90, y \in {-1, 0, 1} :
                  <<x, y>> # <<70, 0>> => quadform(later, <<x, y>>) > quadform(later, <<70, 0>>)

\* a moving obstacle has been projected to a later time along the y axis
C30_Witness ==
    /\ projected.desiredTime > projected.before.Time
    /\ projected.before.Speed > 0
    /\ sin(projected.before.Yaw) # 0
    /\ obstacle.Y # projected.before.Y

(***************************************************************************)
(* The start state of a cycle.                                             *)
(***************************************************************************)
\* C31, as stated: with the sentinel in startState, the start state of the
\* cycle is the last-known vehicle state pushed forward by the planning time
\* (planningTimeIdeal - planningTimeOverhead)
C31_AsStated ==
    [][\A w \in Workers :
          pc[w] = "prepare" /\ pc'[w] = "publish" /\ startState[w].time = -1
              => startState'[w] = push(m_LastState, planning_time_actual)]_vars

\* C31: with the sentinel in startState, the start state of the cycle is the
\* last-known vehicle state pushed forward to the time getTime() + planning
\* time, that is by the planning time plus the age of the last-known state;
\* a continuation state supplied by the controller is used unchanged
C31_StartState ==
    [][\A w \in Workers :
          pc[w] = "prepare" /\ pc'[w] = "publish"
              => IF startState[w].time = -1
                 THEN /\ startState'[w].time = clock + planning_time_actual
                      /\ startState'[w].x =
                            m_LastState.x + m_LastState.speed
                                * (planning_time_actual + (clock - m_LastState.time))
                      /\ startState'[w].speed = m_LastState.speed
                 ELSE startState'[w] = startState[w]]_vars

\* a cycle without a continuation state has derived its start state from a
\* last-known state that is older than the present, of a moving vehicle
C31_Witness ==
    /\ pc[1] = "publish"
    /\ m_LastState.time >= 0
    /\ m_LastState.time < clock
    /\ m_LastState.speed > 0
    /\ startState[1] = push(m_LastState, clock + planning_time_actual - m_LastState.time)
    /\ startState[1] # push(m_LastState, planning_time_actual)
(***************************************************************************)
(* The master ribbon manager and the copy of a cycle.                      *)
(***************************************************************************)
\* C32: no step of the planning worker changes the coverage of the master
\* ribbon manager (the projected strip of coverBetween is attributed on the
\* copy of the cycle only); the master changes only inside addRibbon,
\* clearRibbons and updateCovered.
C32_MasterUntouched ==
    [][/\ at'["worker"] # at["worker"] => m_RibbonManager' = m_RibbonManager
       /\ m_RibbonManager' # m_RibbonManager
             => at["transport"] \in {"inAddRibbon", "inClearRibbons", "inCover"}]_vars

\* coverBetween has finished a ribbon on the copy of the cycle, and the master
\* still has it
C32_Witness ==
    /\ at["worker"] = "copyObstacles"
    /\ handed.covered = 1
    /\ m_RibbonManager > handed.ribbons
(***************************************************************************)
(* Radius shrinking.                                                       *)
(***************************************************************************)
\* the radii were put back at the end of the last cycle
Restored(w) == pc[w] = "prepare" /\ m_RadiusShrink = 0 /\ ~lastPlanAchievable[w]

\* C33: with radius shrinking enabled, each cycle reduces both radii by one
\* step, the accumulated shrink is the reduction made so far, and the
\* restore after a deviation brings both radii back exactly to their
\* configured values, with the accumulated shrink at 0.
C33_ShrinkAndRestore ==
    \A w \in Workers :
        /\ pc[w] \in {"prepare", "publish"}
              => /\ m_RadiusShrink = configuredTurningRadius - turningRadius
                 /\ m_RadiusShrink = configuredCoverageTurningRadius - coverageTurningRadius
        /\ Restored(w) => /\ turningRadius = configuredTurningRadius
                          /\ coverageTurningRadius = configuredCoverageTurningRadius

\* the radii after a restore are larger than the configured ones
C33_Overshoot ==
    \E w \in Workers :
        /\ Restored(w)
        /\ turningRadius > configuredTurningRadius
        /\ coverageTurningRadius > configuredCoverageTurningRadius
(***************************************************************************)
(* Cancellation, workers and startPlanner.                                 *)
(***************************************************************************)
\* C34: a worker that was launched by a startPlanner that has returned, and
\* that had not returned when a cancelPlanner call ran, returns from
\* planLoop; behaviours in which a startPlanner call is kept waiting are
\* left aside.
C34_CancelStopsWorker ==
    [](joining = 0) => \A w \in Workers : (w \in cancelCalls) ~> (pc[w] \in Finished)

\* cancelPlanner ran while a worker had not yet stored Running, and the
\* worker is in its loop in state Running
C34_LostCancel ==
    \E w \in Workers :
        /\ w \in cancelCalls
        /\ pc[w] \in InLoop
        /\ m_PlannerState = "Running"
        /\ cycle[w].calledPlan
\* C35: at most one planning worker is inside the loop of planLoop (past its
\* initialisation, not yet out of the loop) at any time, whatever startPlanner
\* and cancelPlanner calls are made and however they interleave.
C35_OneWorkerInLoop ==
    Cardinality({w \in Workers : pc[w] \in InLoop}) <= 1

\* a second worker has been launched while the first is still in its loop
C35_Witness ==
    \E w \in Workers, v \in Workers :
        /\ pc[w] \in InLoop
        /\ pc[v] \in {"init", "initWait"}
\* C36: every startPlanner call returns: a call that has to wait for the
\* previous worker (it replaced m_PlanningFuture while that worker had not
\* returned) gets to the end of that wait.
C36_StartPlannerReturns == (joining # 0) ~> (joining = 0)

\* startPlanner holds the planner-state mutex and waits for a worker whose
\* next step is to take that mutex, while the worker it launched waits for
\* the mutex too
C36_Deadlock ==
    /\ joining # 0
    /\ m_PlannerStateMutex = "startPlanner"
    /\ pc[m_PlanningFuture] = "init"
    /\ \A w \in Alive : pc[w] \in {"init", "initWait", "top", "exit"}
    /\ \A w \in Workers : ~ENABLED planLoop(w)
    /\ ~ENABLED startPlanner_join
(***************************************************************************)
(* The plan carried into the next cycle.                                   *)
(***************************************************************************)
\* C37: when a worker starts a cycle with a non-empty plan, the start state
\* of the cycle is the one the controller reported, its time lies in a
\* segment of the plan, and changeIntoSuffix(startState.time) erases no more
\* than the segments before that one: it returns without running off the
\* end of the segments and leaves at least one.
C37_CarriedPlanHoldsStart ==
    \A w \in Workers :
        pc[w] = "prepare" /\ ~empty(plan[w])
            => /\ startState[w].time # -1
               /\ containsTime(plan[w], startState[w].time)
               /\ LET suffix == changeIntoSuffix(plan[w], startState[w].time)
                  IN  suffix.ok /\ ~suffix.ub /\ ~empty(suffix.plan)

\* a worker starts a cycle with a plan of two segments of which
\* changeIntoSuffix erases the first; the start state is at the very end of
\* the plan
C37_Witness ==
    \E w \in Workers :
        /\ pc[w] = "prepare"
        /\ Len(plan[w]) = 2
        /\ Len(changeIntoSuffix(plan[w], startState[w].time).plan) = 1
        /\ startState[w].time = getEndTime(plan[w])
(***************************************************************************)
(* project() called again.                                                 *)
(***************************************************************************)
\* C38: a project(t') that follows a project(t') with the same target time
\* leaves the obstacle where the first call put it.
C38_ProjectIdempotent ==
    [][projected.desiredTime # -1 /\ projected'.desiredTime = projected.desiredTime
          => obstacle'.X = obstacle.X /\ obstacle'.Y = obstacle.Y
                /\ obstacle'.mean = obstacle.mean]_vars

\* the obstacle is where one project(t') put it, and one more project(t')
\* moves it again by the same displacement
C38_MovesAgain ==
    /\ projected.desiredTime # -1
    /\ obstacle = project(projected.before, projected.desiredTime)
    /\ obstacle.Time = projected.before.Time
    /\ project(obstacle, projected.desiredTime).mean # obstacle.mean
    /\ project(obstacle, projected.desiredTime).X - obstacle.X = obstacle.X - projected.before.X
    /\ project(obstacle, projected.desiredTime).Y - obstacle.Y = obstacle.Y - projected.before.Y
(***************************************************************************)
(* The heuristic kind of the ribbon manager.                               *)
(***************************************************************************)
\* the settings of the last setConfiguration call are the ones in force
SettingsApplied ==
    /\ turningRadius' = call'.what.turningRadius
    /\ coverageTurningRadius' = call'.what.coverageTurningRadius
    /\ timeHorizon' = call'.what.timeHorizon
    /\ timeMinimum' = call'.what.timeMinimum
    /\ m_UseGaussianDynamicObstacles' = call'.what.useGaussianDynamicObstacles
    /\ m_WhichPlanner' = call'.what.whichPlanner

\* C39: clearRibbons removes every ribbon and leaves the heuristic kind as
\* it was; setConfiguration called with a heuristic outside 0..4 leaves the
\* heuristic kind as it was and applies every other setting.
C39_HeuristicKept ==
    [][/\ call'.op = "clearRibbons" => m_RibbonManager' = 0 /\ heuristic' = heuristic
       /\ call'.op = "setConfiguration" /\ call'.num \notin HeuristicKinds
             => heuristic' = heuristic /\ SettingsApplied]_vars

\* the second half of C39 alone, with the heuristic inside 0..4 as well
C39_SetConfiguration ==
    [][call'.op = "setConfiguration"
          => /\ heuristic' = IF call'.num \in HeuristicKinds THEN call'.num ELSE heuristic
             /\ SettingsApplied]_vars

\* clearRibbons has been called on a manager with ribbons, and the heuristic
\* is not the kind that was in force before
C39_HeuristicLost ==
    /\ call.op = "clearRibbons"
    /\ m_RibbonManager = 0
    /\ heuristic = TspPointRobotNoSplitKRibbons
(***************************************************************************)
(* The controller test node.                                               *)
(***************************************************************************)
\* C40: allDone() (setSucceeded) is never called for a goal after
\* preemptCallback has run for it, and it is called at most once for a goal
\* that was not preempted.
C40_NoSuccessAfterPreempt ==
    /\ ~goal.afterPreempt
    /\ ~goal.preempted => goal.succeeded <= 1

\* preemptCallback ran for the goal after its display thread had ended, and
\* the next odometry message made allDone() report the goal as succeeded
C40_SucceededAfterPreempt ==
    /\ goal.status = "preempted"
    /\ goal.preempted
    /\ goal.succeeded = 1
    /\ goal.afterPreempt
    /\ display = "done"
====
